---- MODULE Spec2Model ----
(***************************************************************************)
(* Task-Manager: the task domain service (TaskService.ts), the two         *)
(* localStorage repositories (TaskRepository.ts) and the useTasks hook     *)
(* (useTasks.ts), as state machines.                                       *)
(*                                                                         *)
(* Strings are sequences of pieces, each piece a string of UTF-16 code      *)
(* units; every piece is one code unit, but for Block, a long run of "a".  *)
(* A Date is its time value in milliseconds, NaN for an Invalid Date.      *)
(* The text stored under the storage key is modelled by the value          *)
(* JSON.parse gives for it (or by its failure to parse).                   *)
(***************************************************************************)
EXTENDS Integers, Sequences, FiniteSets, TLC

VARIABLES
    now,          \* the wall clock, Date.now()
    svc,          \* TaskService: the last call made on the service and its outcome
    ids,          \* TaskService: the ids createTask has returned, in call order
    chainChanged, \* TaskService: some call since createTask changed title or status
    view,         \* TaskService: the last call on a task sequence and its result
    store,        \* localStorage: the value under 'todoapp_tasks_v1'
    repo,         \* repositories: the last completed repository call and its outcome
    pending,      \* TaskRepository: suspended save/delete calls (microtask queue)
    batch,        \* TaskRepository: the calls that overlap the suspended ones
    ses           \* useTasks (whole-collection variant): the hook's state

vars == <<now, svc, ids, chainChanged, view, store, repo, pending, batch, ses>>

----------------------------------------------------------------------------
(* Bounds of the model *)

StartTime == 999
MaxTicks == 1
MaxRaw == 4
MaxRand == 2
MaxCreates == 2
MaxStored == 2
MaxCalls == 2
MaxTasks == 2
MaxViewLen == 3
MaxTotal == 40

(* Program constant: the longest title validateTitle accepts *)
MaxTitleLen == 255

NaN == 0 - 1

----------------------------------------------------------------------------
(* Strings *)

WhiteSpace == {" ", "\t"}
Chars == {"a"} \cup WhiteSpace

SeqsUpTo(S, n) == UNION {[1..k -> S] : k \in 0..n}

\* The titles a caller passes: every short string, and strings around the
\* length limit, bare, padded with white space and with an inner white-space run.
LongTitles ==
    LET body(n) == [i \in 1..n |-> "a"]
    IN  {body(n) : n \in (MaxTitleLen - 1)..(MaxTitleLen + 1)}
        \cup {<<" ">> \o body(MaxTitleLen) \o <<"\t", " ">>}
        \cup {<<" ">> \o body(MaxTitleLen + 1)}
        \cup {body(MaxTitleLen - 2) \o <<" ", "\t", "a">>}
        \cup {body(MaxTitleLen - 1) \o <<"\t", " ", "a">>}

TitleInputs == SeqsUpTo(Chars, MaxRaw) \cup LongTitles

\* String.prototype.trim
RECURSIVE TrimStart(_)
TrimStart(s) ==
    IF s = <<>> THEN s
    ELSE IF Head(s) \in WhiteSpace THEN TrimStart(Tail(s)) ELSE s

RECURSIVE TrimEnd(_)
TrimEnd(s) ==
    IF s = <<>> THEN s
    ELSE IF s[Len(s)] \in WhiteSpace THEN TrimEnd(SubSeq(s, 1, Len(s) - 1)) ELSE s

Trim(s) == TrimEnd(TrimStart(s))

\* String.prototype.replace(/\s+/g, ' '): the first character of each run of
\* white space becomes a space, the rest of the run is removed.
Kept(c) == c # ""

CollapseWhiteSpace(s) ==
    LET replaced == [i \in 1..Len(s) |->
                        IF s[i] \in WhiteSpace
                        THEN (IF i > 1 /\ s[i - 1] \in WhiteSpace THEN "" ELSE " ")
                        ELSE s[i]]
    IN  SelectSeq(replaced, Kept)

----------------------------------------------------------------------------
(* TaskService *)

Statuses == {"pending", "completed"}

NoTask == [id |-> <<>>, title |-> <<>>, status |-> "none",
           createdAt |-> NaN, updatedAt |-> NaN]

ValidationMessage == "Task title must be between 1 and 255 characters"

Ok(task) == [ok |-> TRUE, task |-> task, error |-> ""]
Err(message) == [ok |-> FALSE, task |-> NoTask, error |-> message]

sanitizeTitleTrimOnly(title) == Trim(title)
sanitizeTitle(title) == CollapseWhiteSpace(Trim(title))

validateTitleOffByOne(title) == Len(title) > 0 /\ Len(title) < MaxTitleLen
validateTitle(title) == Len(title) > 0 /\ Len(title) <= MaxTitleLen

\* `task_${Date.now()}_${Math.random().toString(36).substring(2, 11)}`: the
\* clock reading and the random suffix r.
generateId(t, r) == <<"task", t, r>>

createTask(data, t, r) ==
    LET title == sanitizeTitle(data.title)
    IN  IF ~validateTitle(title)
        THEN Err(ValidationMessage)
        ELSE Ok([id |-> generateId(t, r), title |-> title, status |-> "pending",
                 createdAt |-> t, updatedAt |-> t])

\* A patch: title and status are optional (hasTitle, hasStatus).
NoPatch == [hasTitle |-> FALSE, title |-> <<>>, hasStatus |-> FALSE, status |-> "none"]
TitlePatch(title) == [NoPatch EXCEPT !.hasTitle = TRUE, !.title = title]
StatusPatch(status) == [NoPatch EXCEPT !.hasStatus = TRUE, !.status = status]

updateTaskNoStamp(task, updates, t) ==
    IF updates.hasTitle /\ ~validateTitle(sanitizeTitle(updates.title))
    THEN Err(ValidationMessage)
    ELSE Ok([task EXCEPT
             !.title = IF updates.hasTitle THEN sanitizeTitle(updates.title) ELSE @,
             !.status = IF updates.hasStatus THEN updates.status ELSE @])

updateTask(task, updates, t) ==
    IF updates.hasTitle /\ ~validateTitle(sanitizeTitle(updates.title))
    THEN Err(ValidationMessage)
    ELSE LET statusChanges == updates.hasStatus /\ updates.status # task.status
             hasChanges == updates.hasTitle \/ statusChanges
         IN  Ok([task EXCEPT
                 !.title = IF updates.hasTitle THEN sanitizeTitle(updates.title) ELSE @,
                 !.status = IF statusChanges THEN updates.status ELSE @,
                 !.updatedAt = IF hasChanges THEN t ELSE @])

toggleTaskStatusToCompleted(task, t) ==
    updateTask(task, StatusPatch("completed"), t)

toggleTaskStatus(task, t) ==
    updateTask(task, StatusPatch(IF task.status = "pending" THEN "completed" ELSE "pending"), t)

----------------------------------------------------------------------------
(* The service under test: a chain of calls, each on the task the last      *)
(* successful call returned.                                                *)

svcVars == <<svc, ids, chainChanged, view>>
repoVars == <<store, repo, pending, batch>>
sesVars == <<ses>>

\* useTasks before it is mounted: the useState initial values, no timer. error
\* "" is null, editingTaskId <<>> is null; last is the function of the hook, or
\* the effect or timer, that ran last, and thrown is what it threw to its
\* caller ("" for nothing).
NoTimer == [armed |-> FALSE, tasks |-> <<>>]
Unmounted ==
    [phase |-> "unmounted", tasks |-> <<>>, currentFilter |-> "all",
     editingTaskId |-> <<>>, isLoading |-> TRUE, error |-> "",
     loaded |-> <<>>, timer |-> NoTimer, thrown |-> "", last |-> "none"]

SvcIdle == [op |-> "none", inTask |-> NoTask, patch |-> NoPatch,
            out |-> Err(""), cur |-> NoTask, at |-> NaN]

\* A call on a task sequence: its argument besides the tasks, and its result,
\* a task sequence (out) or the statistics (stats); for a render of the
\* application, the number the filter bar shows before "items left".
NoStats == [total |-> 0, completed |-> 0, pending |-> 0, completionRate |-> 0]
ViewIdle == [op |-> "none", tasks |-> <<>>, arg |-> "", query |-> <<>>, out |-> <<>>,
             stats |-> NoStats, itemsLeft |-> 0]

\* The titles the chain of calls is driven with: empty, a title, the same
\* title with white space around it, and another title.
ChainTitles == {<<>>, <<"a">>, <<" ", "a", "\t">>, <<"a", "a">>}

Patches(titles) ==
    {[hasTitle |-> ht, title |-> IF ht THEN ti ELSE <<>>,
      hasStatus |-> hs, status |-> IF hs THEN st ELSE "none"] :
        ht \in BOOLEAN, ti \in titles, hs \in BOOLEAN, st \in Statuses}

Tick ==
    /\ now < StartTime + MaxTicks
    /\ now' = now + 1
    /\ UNCHANGED <<svcVars, repoVars, sesVars>>

SvcCreateTask(title, r) ==
    /\ Len(ids) < MaxCreates
    /\ LET out == createTask([title |-> title], now, r)
       IN  /\ svc' = [op |-> "createTask", inTask |-> NoTask,
                      patch |-> TitlePatch(title), out |-> out,
                      cur |-> IF out.ok THEN out.task ELSE svc.cur, at |-> now]
           /\ ids' = IF out.ok THEN Append(ids, out.task.id) ELSE ids
           /\ chainChanged' = IF out.ok THEN FALSE ELSE chainChanged
    /\ UNCHANGED <<now, view, repoVars, sesVars>>

SvcCall(op, patch, out) ==
    /\ svc' = [op |-> op, inTask |-> svc.cur, patch |-> patch, out |-> out,
               cur |-> IF out.ok THEN out.task ELSE svc.cur, at |-> now]
    /\ chainChanged' = (chainChanged \/ (out.ok /\ (out.task.title # svc.cur.title
                                                   \/ out.task.status # svc.cur.status)))
    /\ UNCHANGED <<now, ids, view, repoVars, sesVars>>

SvcUpdateTask(patch) ==
    /\ svc.cur # NoTask
    /\ SvcCall("updateTask", patch, updateTask(svc.cur, patch, now))

SvcToggleTaskStatus ==
    /\ svc.cur # NoTask
    /\ SvcCall("toggleTaskStatus", NoPatch, toggleTaskStatus(svc.cur, now))

InitRest ==
    /\ store = [kind |-> "absent", items |-> <<>>]
    /\ repo = [op |-> "none"]
    /\ pending = <<>>
    /\ batch = [base |-> store, calls |-> <<>>, fault |-> FALSE]
    /\ ses = Unmounted

InitService ==
    /\ now = StartTime
    /\ svc = SvcIdle
    /\ view = ViewIdle
    /\ ids = <<>>
    /\ chainChanged = FALSE
    /\ InitRest

NextService ==
    \/ Tick
    \/ \E title \in ChainTitles, r \in 0..(MaxRand - 1) : SvcCreateTask(title, r)
    \/ \E patch \in Patches(ChainTitles) : SvcUpdateTask(patch)
    \/ SvcToggleTaskStatus

SpecService == InitService /\ [][NextService]_vars

\* The same calls driven with every title of TitleInputs, at one clock reading.
NextTitle ==
    \/ \E title \in TitleInputs : SvcCreateTask(title, 0)
    \/ \E title \in TitleInputs : SvcUpdateTask(TitlePatch(title))

SpecTitle == InitService /\ [][NextTitle]_vars

----------------------------------------------------------------------------
(* TaskService: the functions on a task sequence *)

FilterTypes == {"all", "active", "completed"}

\* getFilter(type).predicate
getFilterActiveAll(type, task) ==
    IF type = "completed" THEN task.status = "completed" ELSE TRUE

getFilter(type, task) ==
    CASE type = "all" -> TRUE
      [] type = "active" -> task.status = "pending"
      [] type = "completed" -> task.status = "completed"

filterTasks(tasks, filterType) ==
    LET predicate(task) == getFilter(filterType, task)
    IN  SelectSeq(tasks, predicate)

\* Numbers are IEEE 754 doubles. A positive double is its 53 significand bits,
\* least significant first, and the exponent of the least significant bit:
\* the value is the number the bits write in binary, times 2^exp.
SignificandBits == 53

RECURSIVE IncrementBits(_)
IncrementBits(bits) ==
    IF bits = <<>> THEN <<>>
    ELSE IF Head(bits) = 0 THEN <<1>> \o Tail(bits)
    ELSE <<0>> \o IncrementBits(Tail(bits))

\* bits, rounded up by one unit of the last place when up is true; all ones
\* carry into the next power of two.
RoundedUp(bits, exp, up) ==
    IF ~up THEN [bits |-> bits, exp |-> exp]
    ELSE IF \A i \in 1..Len(bits) : bits[i] = 1
    THEN [bits |-> [i \in 1..Len(bits) |-> IF i = Len(bits) THEN 1 ELSE 0], exp |-> exp + 1]
    ELSE [bits |-> IncrementBits(bits), exp |-> exp]

\* The least s with c * 2^s >= t.
RECURSIVE ShiftOf(_, _)
ShiftOf(c, t) == IF c >= t THEN 0 ELSE 1 + ShiftOf(2 * c, t)

\* The next n bits of the quotient r / t (r < 2 * t) put before the bits
\* found so far, and twice the remainder left.
RECURSIVE QuotientBits(_, _, _, _)
QuotientBits(r, t, n, found) ==
    IF n = 0 THEN [bits |-> found, rem |-> r]
    ELSE IF r >= t THEN QuotientBits(2 * (r - t), t, n - 1, <<1>> \o found)
    ELSE QuotientBits(2 * r, t, n - 1, <<0>> \o found)

\* c / t for 0 < c <= t, rounded to nearest, ties to even.
Divided(c, t) ==
    LET s == ShiftOf(c, t)
        q == QuotientBits(c * (2 ^ s), t, SignificandBits, <<>>)
        up == q.rem > t \/ (q.rem = t /\ q.bits[1] = 1)
    IN  RoundedUp(q.bits, 0 - s - (SignificandBits - 1), up)

\* The bits of bits * m + carry, for a small m.
RECURSIVE CarryBits(_)
CarryBits(carry) ==
    IF carry = 0 THEN <<>> ELSE <<carry % 2>> \o CarryBits(carry \div 2)

RECURSIVE ProductBits(_, _, _)
ProductBits(bits, m, carry) ==
    IF bits = <<>> THEN CarryBits(carry)
    ELSE LET v == Head(bits) * m + carry
         IN  <<v % 2>> \o ProductBits(Tail(bits), m, v \div 2)

\* x * m for a small integer m >= 1, rounded to nearest, ties to even.
Multiplied(x, m) ==
    LET product == ProductBits(x.bits, m, 0)
        dropped == Len(product) - SignificandBits
        kept == SubSeq(product, dropped + 1, Len(product))
        up == /\ dropped > 0
              /\ product[dropped] = 1
              /\ (kept[1] = 1 \/ \E i \in 1..(dropped - 1) : product[i] = 1)
    IN  RoundedUp(kept, x.exp + dropped, up)

RECURSIVE BitsValue(_)
BitsValue(bits) == IF bits = <<>> THEN 0 ELSE Head(bits) + 2 * BitsValue(Tail(bits))

\* Math.round(x) for a positive x below 2^31: the integer below x, and one more
\* when the fraction of x is a half or more.
MathRound(x) ==
    LET fraction == 0 - x.exp
        whole == IF fraction >= Len(x.bits) THEN 0
                 ELSE BitsValue(SubSeq(x.bits, fraction + 1, Len(x.bits)))
        half == IF fraction >= 1 /\ fraction <= Len(x.bits) THEN x.bits[fraction] ELSE 0
    IN  whole + half

IsCompletedTask(task) == task.status = "completed"

\* completionRate: total > 0 ? Math.round((completed / total) * 100) : 0
CompletionRate(completed, total) ==
    IF total > 0 /\ completed > 0
    THEN MathRound(Multiplied(Divided(completed, total), 100))
    ELSE 0

calculateStats(tasks) ==
    LET total == Len(tasks)
        completed == Len(SelectSeq(tasks, IsCompletedTask))
    IN  [total |-> total, completed |-> completed, pending |-> total - completed,
         completionRate |-> CompletionRate(completed, total)]

\* The sequences the functions are called with: every short sequence of four
\* tasks (two ids, both statuses), and of every length up to MaxTotal the
\* sequences that begin with their completed tasks.
ViewTask(k, status) ==
    [id |-> generateId(StartTime, k), title |-> <<"a">>, status |-> status,
     createdAt |-> StartTime, updatedAt |-> StartTime]

ShortSeqs == SeqsUpTo({ViewTask(k, status) : k \in 0..1, status \in Statuses}, MaxViewLen)

LongSeqs ==
    {[i \in 1..total |-> ViewTask(i, IF i <= completed THEN "completed" ELSE "pending")] :
        total \in 1..MaxTotal, completed \in 0..MaxTotal}

ViewSeqs == ShortSeqs \cup LongSeqs

\* The calls are made on the task sequence the behaviour starts with.
ViewFilterTasks(filterType) ==
    /\ view' = [ViewIdle EXCEPT !.op = "filterTasks", !.tasks = view.tasks,
                                !.arg = filterType,
                                !.out = filterTasks(view.tasks, filterType)]
    /\ UNCHANGED <<now, svc, ids, chainChanged, repoVars, sesVars>>

InitViews ==
    /\ now = StartTime
    /\ svc = SvcIdle
    /\ ids = <<>>
    /\ chainChanged = FALSE
    /\ view \in {[ViewIdle EXCEPT !.tasks = tasks] : tasks \in ViewSeqs}
    /\ InitRest

ViewCalculateStats ==
    /\ view' = [ViewIdle EXCEPT !.op = "calculateStats", !.tasks = view.tasks,
                                !.stats = calculateStats(view.tasks)]
    /\ UNCHANGED <<now, svc, ids, chainChanged, repoVars, sesVars>>

\* TaskFilter: const pendingCount = taskCount - completedCount
TaskFilter_pendingCount(taskCount, completedCount) == taskCount - completedCount

\* TodoApplication renders <TaskFilter taskCount={stats.pending}
\* completedCount={stats.completed} />, with the stats useTasks computes.
ViewRender ==
    /\ LET stats == calculateStats(view.tasks)
       IN  view' = [ViewIdle EXCEPT
                      !.op = "render", !.tasks = view.tasks, !.stats = stats,
                      !.itemsLeft = TaskFilter_pendingCount(stats.pending, stats.completed)]
    /\ UNCHANGED <<now, svc, ids, chainChanged, repoVars, sesVars>>

NextViews ==
    \/ \E filterType \in FilterTypes : ViewFilterTasks(filterType)
    \/ ViewCalculateStats
    \/ ViewRender

SpecViews == InitViews /\ [][NextViews]_vars

----------------------------------------------------------------------------
(* TaskService: sorting and searching a task sequence *)

MaxQueryLen == 3

\* descending = false: an omitted argument takes the default.
SortArgs == {"omitted", "false", "true"}
Descending(arg) == arg = "true"

\* The comparator of sortTasksByCreationDate.
Comparison(a, b, descending) ==
    LET comparison == a.createdAt - b.createdAt
    IN  IF descending THEN 0 - comparison ELSE comparison

\* Array.prototype.sort is stable: an element goes after every element the
\* comparator does not put after it.
RECURSIVE Inserted(_, _, _)
Inserted(sorted, task, descending) ==
    IF sorted = <<>> THEN <<task>>
    ELSE IF Comparison(sorted[Len(sorted)], task, descending) <= 0
    THEN Append(sorted, task)
    ELSE Append(Inserted(SubSeq(sorted, 1, Len(sorted) - 1), task, descending),
                sorted[Len(sorted)])

RECURSIVE SortedPrefix(_, _, _)
SortedPrefix(tasks, n, descending) ==
    IF n = 0 THEN <<>>
    ELSE Inserted(SortedPrefix(tasks, n - 1, descending), tasks[n], descending)

Reversed(s) == [i \in 1..Len(s) |-> s[Len(s) + 1 - i]]

sortTasksByCreationDateReversing(tasks, descending) ==
    IF descending THEN Reversed(SortedPrefix(tasks, Len(tasks), FALSE))
    ELSE SortedPrefix(tasks, Len(tasks), FALSE)

\* [...tasks].sort(...): the copy is sorted, tasks is left as it is.
sortTasksByCreationDate(tasks, descending) ==
    SortedPrefix(tasks, Len(tasks), descending)

\* String.prototype.toLowerCase, on the letters of the model.
LowerOf(c) ==
    CASE c = "A" -> "a"
      [] c = "B" -> "b"
      [] OTHER -> c

toLowerCase(s) == [i \in 1..Len(s) |-> LowerOf(s[i])]

\* String.prototype.includes
includes(s, q) ==
    \E i \in 0..(Len(s) - Len(q)) : SubSeq(s, i + 1, i + Len(q)) = q

searchTasksUntrimmed(tasks, query) ==
    LET normalizedQuery == toLowerCase(query)
        matches(task) == includes(toLowerCase(task.title), normalizedQuery)
    IN  IF normalizedQuery = <<>> THEN tasks ELSE SelectSeq(tasks, matches)

searchTasks(tasks, query) ==
    LET normalizedQuery == Trim(toLowerCase(query))
        matches(task) == includes(toLowerCase(task.title), normalizedQuery)
    IN  IF normalizedQuery = <<>> THEN tasks ELSE SelectSeq(tasks, matches)

\* The sequences sorted and searched: at each position a task of its own id,
\* with one of four titles and one of two creation times.
QueryTitles == {<<"A", "b">>, <<"a", "b", "a">>, <<"b", " ", "A">>, <<"b">>}

QueryTask(k, title, createdAt) ==
    [id |-> generateId(createdAt, k), title |-> title, status |-> "pending",
     createdAt |-> createdAt, updatedAt |-> createdAt]

QueryKinds == QueryTitles \X {StartTime, StartTime + 1}

QuerySeqs ==
    {[i \in 1..n |-> QueryTask(i, kinds[i][1], kinds[i][2])] :
        n \in 0..MaxQueryLen, kinds \in [1..MaxQueryLen -> QueryKinds]}

\* The queries: every string of up to two letters and spaces, and queries with
\* white space around them.
Queries ==
    SeqsUpTo({"a", "A", "b", " "}, 2)
        \cup {<<"\t">>, <<" ", "\t">>, <<" ", "a", "B", "\t">>, <<"\t", "b", " ", "a", " ">>,
              <<"B", "A">>, <<"a", " ", " ", "b">>}

ViewSortTasks(arg) ==
    /\ view' = [ViewIdle EXCEPT !.op = "sortTasksByCreationDate", !.tasks = view.tasks,
                                !.arg = arg,
                                !.out = sortTasksByCreationDate(view.tasks, Descending(arg))]
    /\ UNCHANGED <<now, svc, ids, chainChanged, repoVars, sesVars>>

ViewSearchTasks(query) ==
    /\ view' = [ViewIdle EXCEPT !.op = "searchTasks", !.tasks = view.tasks,
                                !.query = query,
                                !.out = searchTasks(view.tasks, query)]
    /\ UNCHANGED <<now, svc, ids, chainChanged, repoVars, sesVars>>

InitQuery ==
    /\ now = StartTime
    /\ svc = SvcIdle
    /\ ids = <<>>
    /\ chainChanged = FALSE
    /\ view \in {[ViewIdle EXCEPT !.tasks = tasks] : tasks \in QuerySeqs}
    /\ InitRest

NextQuery ==
    \/ \E arg \in SortArgs : ViewSortTasks(arg)
    \/ \E query \in Queries : ViewSearchTasks(query)

SpecQuery == InitQuery /\ [][NextQuery]_vars

----------------------------------------------------------------------------
(* Persisted records *)

\* A JSON value of a record field: a string, or no string (missing, a number, ...).
\* v of a missing field is a filler of the field's type.
Str(v) == [t |-> "string", v |-> v]
Missing(filler) == [t |-> "undefined", v |-> filler]

\* Date.prototype.toISOString: YYYY-MM-DDTHH:mm:ss.sssZ, seconds and milliseconds
\* written apart. It throws a RangeError on an Invalid Date (DateThrows).
toISOString(ms) == <<"iso", ms \div 1000, ms % 1000>>
DateThrows(ms) == ms = NaN

\* new Date(string): the time value of an ISO string, Invalid Date otherwise.
ParseDate(str) ==
    IF Len(str) = 3 /\ str[1] = "iso" THEN str[2] * 1000 + str[3] ELSE NaN

\* serializeTask is the same in both classes.
serializeTask(task) ==
    [kind |-> "object",
     id |-> Str(task.id), title |-> Str(task.title), status |-> Str(task.status),
     createdAt |-> Str(toISOString(task.createdAt)),
     updatedAt |-> Str(toISOString(task.updatedAt))]

SerializeThrows(task) == DateThrows(task.createdAt) \/ DateThrows(task.updatedAt)

\* TaskRepository.isValidTaskData: any string is accepted as status.
TaskRepository_isValidTaskData(data) ==
    /\ data.kind = "object"
    /\ data.id.t = "string"
    /\ data.title.t = "string"
    /\ data.status.t = "string"
    /\ data.createdAt.t = "string"
    /\ data.updatedAt.t = "string"

\* LocalStorageTaskRepository.isValidTaskData
LocalStorageTaskRepository_isValidTaskData(data) ==
    /\ data.kind = "object"
    /\ data.id.t = "string"
    /\ data.title.t = "string"
    /\ data.status.t = "string" /\ data.status.v \in {"pending", "completed"}
    /\ data.createdAt.t = "string"
    /\ data.updatedAt.t = "string"

TaskOfData(data) ==
    [id |-> data.id.v, title |-> data.title.v, status |-> data.status.v,
     createdAt |-> ParseDate(data.createdAt.v),
     updatedAt |-> ParseDate(data.updatedAt.v)]

\* deserializeTask gives a task, or null: [null |-> TRUE].
Null == [null |-> TRUE, task |-> NoTask]
Some(task) == [null |-> FALSE, task |-> task]

TaskRepository_deserializeTask(data) ==
    IF ~TaskRepository_isValidTaskData(data) THEN Null ELSE Some(TaskOfData(data))

\* LocalStorageTaskRepository.deserializeTask reads this.isValidTaskData inside
\* its try block: with `this` undefined the TypeError is caught and null returned.
LocalStorageTaskRepository_deserializeTask(data, thisArg) ==
    IF thisArg = "undefined" THEN Null
    ELSE IF ~LocalStorageTaskRepository_isValidTaskData(data) THEN Null
    ELSE Some(TaskOfData(data))

----------------------------------------------------------------------------
(* localStorage and the two repositories *)

\* The value under the key: absent (getItem gives null), the empty string, a
\* text JSON.parse rejects, a JSON value that is no array, or a JSON array.
Absent == [kind |-> "absent", items |-> <<>>]
EmptyText == [kind |-> "empty", items |-> <<>>]
InvalidText == [kind |-> "invalid", items |-> <<>>]
NonArray == [kind |-> "value", items |-> <<>>]
ArrayOf(items) == [kind |-> "array", items |-> items]

NotNull(r) == ~r.null
TaskOf(r) == r.task

\* What findAll returns for a stored value: [] unless it is an array (!data,
\* JSON.parse throwing, !Array.isArray), else the elements deserializeTask keeps.
KeptTasks(results) ==
    LET kept == SelectSeq(results, NotNull)
    IN  [i \in 1..Len(kept) |-> TaskOf(kept[i])]

TaskRepository_findAll(value, readThrows) ==
    IF readThrows \/ value.kind # "array" THEN <<>>
    ELSE KeptTasks([i \in 1..Len(value.items) |->
                        TaskRepository_deserializeTask(value.items[i])])

\* parsed.map(this.deserializeTask): map calls the method with `this` undefined.
MapThis == "undefined"
LocalStorageTaskRepository_deserializeUnbound(data) ==
    LocalStorageTaskRepository_deserializeTask(data, MapThis)

LocalStorageTaskRepository_findAll(value, readThrows) ==
    IF readThrows \/ value.kind # "array" THEN <<>>
    ELSE KeptTasks([i \in 1..Len(value.items) |->
                        LocalStorageTaskRepository_deserializeUnbound(value.items[i])])

\* What the try block of findAll throws, in both classes: getItem failing, or
\* JSON.parse rejecting the text ("" for nothing).
FindAllThrown(value, readThrows) ==
    IF readThrows THEN "getItem failed"
    ELSE IF value.kind = "invalid" THEN "SyntaxError"
    ELSE ""

\* What findAll throws to its caller: the catch block logs and returns [].
FindAllErrorRethrown(value, readThrows) == FindAllThrown(value, readThrows)
FindAllError(value, readThrows) == ""

\* The length of JSON.stringify of the records: brackets, commas, and per record
\* the keys and punctuation (62), the id (task_, clock digits, _, suffix), the
\* title (a tab is written \\t), the status and two ISO strings of 24.
MAX_STORAGE_SIZE == 5 * 1024 * 1024
IdLength == 28
RECURSIVE CodeUnits(_)
CodeUnits(s) == IF s = <<>> THEN 0 ELSE Len(Head(s)) + CodeUnits(Tail(s))
RecordLength(task) ==
    62 + IdLength + CodeUnits(task.title)
       + Cardinality({i \in 1..Len(task.title) : task.title[i] = "\t"})
       + (IF task.status = "pending" THEN 7 ELSE 9) + 24 + 24
RECURSIVE SumLengths(_)
SumLengths(tasks) ==
    IF tasks = <<>> THEN 0 ELSE RecordLength(Head(tasks)) + SumLengths(Tail(tasks))
SerializedLength(tasks) ==
    2 + SumLengths(tasks) + (IF Len(tasks) > 1 THEN Len(tasks) - 1 ELSE 0)

QuotaMessage == "Storage quota exceeded. Please clear some tasks."
\* The catch block of save rethrows as `Failed to save tasks: ${error.message}`
\* whatever is no QuotaExceededError, save's own size failure included.
WriteFailure(message) == "Failed to save tasks: " \o message
SizeMessage == WriteFailure("Data exceeds maximum storage size")
DateMessage == WriteFailure("Invalid time value")

\* What setItem does: "ok", or it throws a QuotaExceededError ("quota"), or it
\* throws another Error, given by its message.
BackendMessages == {"setItem failed", "Data exceeds maximum storage size"}
SetItemOutcomes == {"ok", "quota"} \cup BackendMessages

\* save reaches setItem when serializing did not throw and the text is not
\* longer than MAX_STORAGE_SIZE.
SaveCallsSetItem(tasks) ==
    /\ \A i \in 1..Len(tasks) : ~SerializeThrows(tasks[i])
    /\ SerializedLength(tasks) <= MAX_STORAGE_SIZE

\* LocalStorageTaskRepository.save: the error it throws ("" for none) and the
\* value it leaves under the key.
LocalStorageTaskRepository_saveError(tasks, setItem) ==
    IF \E i \in 1..Len(tasks) : SerializeThrows(tasks[i]) THEN DateMessage
    ELSE IF SerializedLength(tasks) > MAX_STORAGE_SIZE THEN SizeMessage
    ELSE IF setItem = "quota" THEN QuotaMessage
    ELSE IF setItem # "ok" THEN WriteFailure(setItem)
    ELSE ""

LocalStorageTaskRepository_save(value, tasks, setItem) ==
    IF LocalStorageTaskRepository_saveError(tasks, setItem) # "" THEN value
    ELSE ArrayOf([i \in 1..Len(tasks) |-> serializeTask(tasks[i])])

\* clear: removeItem, which may throw. TaskRepository rethrows, the other logs.
ClearMessage == "Failed to clear tasks"
ClearedNothing(value, removeThrows) == value
Cleared(value, removeThrows) == IF removeThrows THEN value ELSE Absent

----------------------------------------------------------------------------
(* The store under test: calls that complete before the next one starts *)

\* Tasks as the service makes them: two ids, created in different seconds,
\* each as created and as toggled later.
TaskA == createTask([title |-> <<"a">>], StartTime, 0).task
TaskB == createTask([title |-> <<"a", " ", "a">>], StartTime + 1, 1).task
SampleTasks ==
    {TaskA, toggleTaskStatus(TaskA, StartTime + 1).task,
     TaskB, toggleTaskStatus(TaskB, StartTime + 2).task}

HasDistinctIds(tasks) ==
    \A i, j \in 1..Len(tasks) : i # j => tasks[i].id # tasks[j].id

TaskSeqs == {q \in SeqsUpTo(SampleTasks, MaxStored) : HasDistinctIds(q)}

\* Collections around the size limit: one task whose title is a block of "a"
\* that makes the serialized text MAX_STORAGE_SIZE long, and one unit longer.
RECURSIVE Repeated(_, _)
Repeated(s, n) ==
    IF n = 0 THEN ""
    ELSE LET half == Repeated(s, n \div 2)
         IN  IF n % 2 = 0 THEN half \o half ELSE half \o half \o s

Block(n) == Repeated("a", n)
FillLength == MAX_STORAGE_SIZE - (RecordLength([TaskA EXCEPT !.title = <<>>]) + 2)
BlockSeqs ==
    {<<[TaskA EXCEPT !.title = <<Block(FillLength + k)>>]>> : k \in 0..1}

\* Records found under the key: written by save, or malformed: status missing,
\* a status that is no TaskStatus, a date that does not parse, null.
RecordA == serializeTask(TaskA)
RecordB == serializeTask(toggleTaskStatus(TaskB, StartTime + 2).task)
StoredRecords ==
    {RecordA, RecordB,
     [RecordA EXCEPT !.status = Missing("")],
     [RecordB EXCEPT !.status = Str("archived")],
     [RecordA EXCEPT !.createdAt = Str(<<"not a date">>)],
     [kind |-> "null", id |-> Missing(<<>>), title |-> Missing(<<>>),
      status |-> Missing(""), createdAt |-> Missing(<<>>), updatedAt |-> Missing(<<>>)]}

StoredValues ==
    {Absent, EmptyText, InvalidText, NonArray}
        \cup {ArrayOf(q) : q \in SeqsUpTo(StoredRecords, MaxStored)}

RepoIdle == [op |-> "none", class |-> "none", tasks |-> <<>>, fault |-> FALSE,
             before |-> Absent, out |-> <<>>, error |-> "",
             saved |-> FALSE, savedTasks |-> <<>>,
             setItemCalled |-> FALSE, setItem |-> ""]

\* A completed call: what it was given, whether localStorage threw in it (fault),
\* the stored value before it, what it returned (out) or threw (error). saved:
\* the stored value is what the last successful save(savedTasks) wrote.
\* setItemCalled: the call reached localStorage.setItem, and setItem is what
\* setItem did then ("" when it was not called).
CallRecord(op, class, tasks, fault, out, error, saved, savedTasks, setItemCalled, setItem) ==
    [op |-> op, class |-> class, tasks |-> tasks, fault |-> fault,
     before |-> store, out |-> out, error |-> error,
     saved |-> saved, savedTasks |-> savedTasks,
     setItemCalled |-> setItemCalled,
     setItem |-> IF setItemCalled THEN setItem ELSE ""]

Completed(op, class, tasks, fault, out, error, saved, savedTasks) ==
    repo' = CallRecord(op, class, tasks, fault, out, error, saved, savedTasks, FALSE, "")

\* The calls that overlap. A suspending call made while none is suspended starts
\* a batch, on the stored value it finds; a call made while some are suspended
\* joins the batch; a call that completes while none is suspended leaves no
\* batch, and the value it stored is what the next batch starts from.
Call(op, task, id, tasks) == [op |-> op, task |-> task, id |-> id, tasks |-> tasks]

Started(call, fault) ==
    IF pending = <<>>
    THEN [base |-> store, calls |-> <<call>>, fault |-> fault]
    ELSE [batch EXCEPT !.calls = Append(@, call), !.fault = @ \/ fault]

Joined(call, fault, stored) ==
    IF pending = <<>>
    THEN [base |-> stored, calls |-> <<>>, fault |-> FALSE]
    ELSE [batch EXCEPT !.calls = Append(@, call), !.fault = @ \/ fault]

MayCall == pending = <<>> \/ Len(batch.calls) < MaxCalls

LSSave(tasks, setItem) ==
    /\ MayCall
    /\ LET error == LocalStorageTaskRepository_saveError(tasks, setItem)
       IN  /\ store' = LocalStorageTaskRepository_save(store, tasks, setItem)
           /\ repo' = CallRecord("save", "LocalStorageTaskRepository", tasks,
                                  setItem # "ok", <<>>, error,
                                  IF error = "" THEN TRUE ELSE repo.saved,
                                  IF error = "" THEN tasks ELSE repo.savedTasks,
                                  SaveCallsSetItem(tasks), setItem)
    /\ batch' = Joined(Call("saveAll", NoTask, <<>>, tasks), setItem # "ok", store')
    /\ UNCHANGED <<now, svcVars, pending, sesVars>>

LSFindAll(readThrows) ==
    /\ Completed("findAll", "LocalStorageTaskRepository", <<>>, readThrows,
                 LocalStorageTaskRepository_findAll(store, readThrows), FindAllError(store, readThrows),
                 repo.saved, repo.savedTasks)
    /\ UNCHANGED <<now, svcVars, store, pending, batch, sesVars>>

TRFindAll(readThrows) ==
    /\ Completed("findAll", "TaskRepository", <<>>, readThrows,
                 TaskRepository_findAll(store, readThrows), FindAllError(store, readThrows),
                 repo.saved, repo.savedTasks)
    /\ UNCHANGED <<now, svcVars, store, pending, batch, sesVars>>

LSClear(removeThrows) ==
    /\ MayCall
    /\ store' = Cleared(store, removeThrows)
    /\ Completed("clear", "LocalStorageTaskRepository", <<>>, removeThrows, <<>>, "",
                 removeThrows /\ repo.saved, repo.savedTasks)
    /\ batch' = Joined(Call("clear", NoTask, <<>>, <<>>), removeThrows, store')
    /\ UNCHANGED <<now, svcVars, pending, sesVars>>

TRClear(removeThrows) ==
    /\ MayCall
    /\ store' = Cleared(store, removeThrows)
    /\ Completed("clear", "TaskRepository", <<>>, removeThrows, <<>>,
                 IF removeThrows THEN ClearMessage ELSE "",
                 removeThrows /\ repo.saved, repo.savedTasks)
    /\ batch' = Joined(Call("clear", NoTask, <<>>, <<>>), removeThrows, store')
    /\ UNCHANGED <<now, svcVars, pending, sesVars>>

InitStore ==
    /\ now = StartTime
    /\ svc = SvcIdle
    /\ view = ViewIdle
    /\ ids = <<>>
    /\ chainChanged = FALSE
    /\ store \in StoredValues
    /\ repo = RepoIdle
    /\ pending = <<>>
    /\ batch = [base |-> store, calls |-> <<>>, fault |-> FALSE]
    /\ ses = Unmounted

NextStore ==
    \/ \E tasks \in TaskSeqs, setItem \in SetItemOutcomes : LSSave(tasks, setItem)
    \/ \E readThrows \in BOOLEAN : LSFindAll(readThrows)
    \/ \E readThrows \in BOOLEAN : TRFindAll(readThrows)
    \/ \E removeThrows \in BOOLEAN : LSClear(removeThrows)
    \/ \E removeThrows \in BOOLEAN : TRClear(removeThrows)

SpecStore == InitStore /\ [][NextStore]_vars

\* The whole-collection repository with collections around the size limit.
SizeStores == {Absent, InvalidText, ArrayOf(<<RecordA>>), ArrayOf(<<RecordB, RecordA>>)}

InitSize ==
    /\ now = StartTime
    /\ svc = SvcIdle
    /\ view = ViewIdle
    /\ ids = <<>>
    /\ chainChanged = FALSE
    /\ store \in SizeStores
    /\ repo = RepoIdle
    /\ pending = <<>>
    /\ batch = [base |-> store, calls |-> <<>>, fault |-> FALSE]
    /\ ses = Unmounted

NextSize ==
    \/ \E tasks \in BlockSeqs \cup {<<>>, <<TaskB>>}, setItem \in SetItemOutcomes :
            LSSave(tasks, setItem)
    \/ \E readThrows \in BOOLEAN : LSFindAll(readThrows)
    \/ \E removeThrows \in BOOLEAN : LSClear(removeThrows)

SpecSize == InitSize /\ [][NextSize]_vars

----------------------------------------------------------------------------
(* TaskRepository.save(task) and delete(id): each reads the stored tasks when  *)
(* it is called (findAll runs up to its return), is suspended by its await,   *)
(* and writes when it is resumed. Suspended calls resume in call order.       *)

PersistMessage == "Failed to save tasks to localStorage"

\* save, lines 46-52: replace the task with the same id, or push.
Upserted(tasks, task) ==
    IF \E i \in 1..Len(tasks) : tasks[i].id = task.id
    THEN LET k == CHOOSE i \in 1..Len(tasks) :
                    /\ tasks[i].id = task.id
                    /\ \A j \in 1..(i - 1) : tasks[j].id # task.id
         IN  [tasks EXCEPT ![k] = task]
    ELSE Append(tasks, task)

\* delete, line 61
Without(tasks, id) ==
    LET Other(task) == task.id # id IN SelectSeq(tasks, Other)

\* persistTasks: serializeTask or setItem throwing is rethrown as PersistMessage.
PersistThrows(tasks, setItemThrows) ==
    setItemThrows \/ \E i \in 1..Len(tasks) : SerializeThrows(tasks[i])

Persisted(value, tasks, setItemThrows) ==
    IF PersistThrows(tasks, setItemThrows) THEN value
    ELSE ArrayOf([i \in 1..Len(tasks) |-> serializeTask(tasks[i])])

\* The tasks a suspended call writes when resumed: none for a delete that
\* removed nothing.
Writes(c) == c.op = "save" \/ Len(Without(c.tasks, c.id)) # Len(c.tasks)
ToWrite(c) == IF c.op = "save" THEN Upserted(c.tasks, c.task) ELSE Without(c.tasks, c.id)

TRSaveCall(task, readThrows) ==
    /\ MayCall
    /\ pending' = Append(pending, [op |-> "save", task |-> task, id |-> task.id,
                                   tasks |-> TaskRepository_findAll(store, readThrows)])
    /\ batch' = Started(Call("save", task, task.id, <<>>), readThrows)
    /\ UNCHANGED <<now, svcVars, store, repo, sesVars>>

TRDeleteCall(id, readThrows) ==
    /\ MayCall
    /\ pending' = Append(pending, [op |-> "delete", task |-> NoTask, id |-> id,
                                   tasks |-> TaskRepository_findAll(store, readThrows)])
    /\ batch' = Started(Call("delete", NoTask, id, <<>>), readThrows)
    /\ UNCHANGED <<now, svcVars, store, repo, sesVars>>

\* What save and delete throw when persistTasks fails, whatever the failure.
TaskRepository_persistError(tasks, setItem) ==
    IF PersistThrows(tasks, setItem # "ok") THEN PersistMessage ELSE ""

\* out: save returns the task; delete returns true (<<id>>) or false (<<>>).
TRResume(setItem) ==
    /\ pending # <<>>
    /\ LET c == Head(pending)
           setItemThrows == setItem # "ok"
           throws == Writes(c) /\ PersistThrows(ToWrite(c), setItemThrows)
       IN  /\ store' = IF Writes(c) THEN Persisted(store, ToWrite(c), setItemThrows)
                        ELSE store
           /\ repo' = CallRecord(c.op, "TaskRepository", c.tasks, setItemThrows,
                                  IF throws THEN <<>>
                                  ELSE IF c.op = "save" THEN <<c.task>>
                                  ELSE IF Writes(c) THEN <<c.id>> ELSE <<>>,
                                  IF Writes(c) THEN TaskRepository_persistError(ToWrite(c), setItem)
                                  ELSE "",
                                  FALSE, <<>>,
                                  Writes(c) /\ ~PersistThrows(ToWrite(c), FALSE), setItem)
           /\ batch' = [batch EXCEPT !.fault = @ \/ (Writes(c) /\ setItemThrows)]
    /\ pending' = Tail(pending)
    /\ UNCHANGED <<now, svcVars, sesVars>>

\* The stored values the overlapping calls start from.
AsyncStores ==
    {Absent, ArrayOf(<<RecordA>>), ArrayOf(<<RecordA, RecordB>>),
     ArrayOf(<<[RecordA EXCEPT !.status = Missing("")], RecordB>>)}

InitAsync ==
    /\ now = StartTime
    /\ svc = SvcIdle
    /\ view = ViewIdle
    /\ ids = <<>>
    /\ chainChanged = FALSE
    /\ store \in AsyncStores
    /\ repo = RepoIdle
    /\ pending = <<>>
    /\ batch = [base |-> store, calls |-> <<>>, fault |-> FALSE]
    /\ ses = Unmounted

NextAsync ==
    \/ \E task \in SampleTasks, readThrows \in BOOLEAN : TRSaveCall(task, readThrows)
    \/ \E id \in {TaskA.id, TaskB.id}, readThrows \in BOOLEAN : TRDeleteCall(id, readThrows)
    \/ \E setItem \in {"ok", "setItem failed"} : TRResume(setItem)
    \/ \E removeThrows \in BOOLEAN : TRClear(removeThrows)
    \/ \E readThrows \in BOOLEAN : TRFindAll(readThrows)

SpecAsync == InitAsync /\ [][NextAsync]_vars

\* Both repositories with every outcome of setItem, one call at a time.
InitWrite ==
    /\ InitAsync
    /\ store \in {Absent, ArrayOf(<<RecordA>>)}

NextWrite ==
    \/ \E tasks \in TaskSeqs, setItem \in SetItemOutcomes : LSSave(tasks, setItem)
    \/ \E task \in SampleTasks : pending = <<>> /\ TRSaveCall(task, FALSE)
    \/ \E id \in {TaskA.id, TaskB.id} : pending = <<>> /\ TRDeleteCall(id, FALSE)
    \/ \E setItem \in SetItemOutcomes : TRResume(setItem)

SpecWrite == InitWrite /\ [][NextWrite]_vars

----------------------------------------------------------------------------
(* useTasks, whole-collection variant (LocalStorageTaskRepository, autoSave    *)
(* on). Every setTasks gives a new array, so the auto-save effect runs again   *)
(* after it: the timer of the previous run is cleared and a new one started    *)
(* with the tasks of the new render.                                           *)

Armed(tasks) == [armed |-> TRUE, tasks |-> tasks]

\* The functions of the hook can be called from the first render on.
Mounted == {"loading", "ready"}

ScheduledWhileLoading(tasks) == Armed(tasks)

\* The auto-save effect after a setTasks: it returns at once while isLoading is
\* true, and starts the timer otherwise.
Scheduled(tasks) == IF ses.isLoading THEN NoTimer ELSE Armed(tasks)

\* Mount: the first render, then the effects. The load effect calls findAll,
\* which reads the stored value before loadTasks is suspended; the auto-save
\* effect returns at once because isLoading is true.
Mount(readThrows) ==
    /\ ses.phase = "unmounted"
    /\ ses' = [Unmounted EXCEPT !.last = "mount",
                 !.phase = "loading",
                 !.loaded = LocalStorageTaskRepository_findAll(store, readThrows)]
    /\ UNCHANGED <<now, svcVars, repoVars>>

\* loadTasks resumes: setTasks(loadedTasks), setIsLoading(false); the auto-save
\* effect of the next render starts the timer.
LoadDone ==
    /\ ses.phase = "loading"
    /\ ses' = [ses EXCEPT !.last = "load", !.phase = "ready", !.tasks = ses.loaded,
                          !.isLoading = FALSE, !.timer = Armed(ses.loaded)]
    /\ UNCHANGED <<now, svcVars, repoVars>>

\* The debounce timer fires: repository.save(tasks) with the tasks of the render
\* that started it; a failure becomes the error state.
AutoSave(setItem) ==
    /\ ses.phase \in Mounted /\ ses.timer.armed
    /\ LET error == LocalStorageTaskRepository_saveError(ses.timer.tasks, setItem)
       IN  /\ store' = LocalStorageTaskRepository_save(store, ses.timer.tasks, setItem)
           /\ ses' = [ses EXCEPT !.last = "save", !.timer = NoTimer, !.thrown = "",
                                 !.error = IF error = "" THEN @ ELSE error]
    /\ UNCHANGED <<now, svcVars, repo, pending, batch>>

addTaskSwallowing(title, r) ==
    /\ ses.phase \in Mounted
    /\ Len(ses.tasks) < MaxTasks
    /\ LET out == createTask([title |-> title], now, r)
       IN  ses' = IF out.ok
                  THEN [ses EXCEPT !.last = "addTask", !.error = "", !.thrown = "",
                                   !.tasks = Append(@, out.task),
                                   !.timer = Scheduled(Append(ses.tasks, out.task))]
                  ELSE [ses EXCEPT !.last = "addTask", !.error = out.error, !.thrown = ""]
    /\ UNCHANGED <<now, svcVars, repoVars>>

\* addTask: setError(null), createTask, setTasks; what createTask throws goes
\* to handleError and on to the caller.
addTask(title, r) ==
    /\ ses.phase \in Mounted
    /\ Len(ses.tasks) < MaxTasks
    /\ LET out == createTask([title |-> title], now, r)
       IN  ses' = IF out.ok
                  THEN [ses EXCEPT !.last = "addTask", !.error = "", !.thrown = "",
                                   !.tasks = Append(@, out.task),
                                   !.timer = Scheduled(Append(ses.tasks, out.task))]
                  ELSE [ses EXCEPT !.last = "addTask", !.error = out.error, !.thrown = out.error]
    /\ UNCHANGED <<now, svcVars, repoVars>>

\* The updater of setTasks runs when React renders, outside the try block of
\* the action: a title that fails validation, for an id that is in the
\* collection, throws in the render and unmounts the hook (the effects are
\* cleaned up, so the timer is cleared).
UpdaterThrows(tasks, id, title) ==
    /\ \E i \in 1..Len(tasks) : tasks[i].id = id
    /\ ~updateTask(NoTask, TitlePatch(title), now).ok

sessionUpdateTask(id, title) ==
    /\ ses.phase \in Mounted
    /\ ses' = IF UpdaterThrows(ses.tasks, id, title)
              THEN [ses EXCEPT !.last = "updateTask", !.phase = "crashed", !.timer = NoTimer]
              ELSE LET updated == [i \in 1..Len(ses.tasks) |->
                                      IF ses.tasks[i].id = id
                                      THEN updateTask(ses.tasks[i], TitlePatch(title), now).task
                                      ELSE ses.tasks[i]]
                   IN  [ses EXCEPT !.last = "updateTask", !.error = "", !.thrown = "",
                                   !.tasks = updated,
                                   !.editingTaskId = <<>>, !.timer = Scheduled(updated)]
    /\ UNCHANGED <<now, svcVars, repoVars>>

sessionToggleTaskStatus(id) ==
    /\ ses.phase \in Mounted
    /\ LET toggled == [i \in 1..Len(ses.tasks) |->
                          IF ses.tasks[i].id = id
                          THEN toggleTaskStatus(ses.tasks[i], now).task
                          ELSE ses.tasks[i]]
       IN  ses' = [ses EXCEPT !.last = "toggleTaskStatus", !.error = "", !.thrown = "",
                             !.tasks = toggled,
                             !.timer = Scheduled(toggled)]
    /\ UNCHANGED <<now, svcVars, repoVars>>

\* toggleTaskStatus called twice in one render: the two updaters are queued and
\* run one after the other, the second on what the first returned.
sessionToggleTaskStatusTwice(id) ==
    /\ ses.phase \in Mounted
    /\ LET Toggled(tasks) == [i \in 1..Len(tasks) |->
                                 IF tasks[i].id = id
                                 THEN toggleTaskStatus(tasks[i], now).task
                                 ELSE tasks[i]]
           toggled == Toggled(Toggled(ses.tasks))
       IN  ses' = [ses EXCEPT !.last = "toggleTaskStatusTwice", !.error = "",
                             !.thrown = "", !.tasks = toggled,
                             !.timer = Scheduled(toggled)]
    /\ UNCHANGED <<now, svcVars, repoVars>>

deleteTask(id) ==
    /\ ses.phase \in Mounted
    /\ ses' = [ses EXCEPT !.last = "deleteTask", !.error = "", !.thrown = "",
                          !.tasks = Without(@, id),
                          !.editingTaskId = IF @ = id THEN <<>> ELSE @,
                          !.timer = Scheduled(Without(ses.tasks, id))]
    /\ UNCHANGED <<now, svcVars, repoVars>>

IsPending(task) == task.status # "completed"

clearCompletedKeepingAll ==
    /\ ses.phase \in Mounted
    /\ ses' = [ses EXCEPT !.last = "clearCompleted", !.error = "", !.thrown = "",
                          !.timer = Scheduled(ses.tasks)]
    /\ UNCHANGED <<now, svcVars, repoVars>>

clearCompleted ==
    /\ ses.phase \in Mounted
    /\ ses' = [ses EXCEPT !.last = "clearCompleted", !.error = "", !.thrown = "",
                          !.tasks = SelectSeq(@, IsPending),
                          !.timer = Scheduled(SelectSeq(ses.tasks, IsPending))]
    /\ UNCHANGED <<now, svcVars, repoVars>>

setFilter(filter) ==
    /\ ses.phase \in Mounted
    /\ ses' = [ses EXCEPT !.last = "setFilter", !.currentFilter = filter, !.thrown = ""]
    /\ UNCHANGED <<now, svcVars, repoVars>>

startEditing(id) ==
    /\ ses.phase \in Mounted
    /\ ses' = [ses EXCEPT !.last = "startEditing", !.editingTaskId = id, !.thrown = ""]
    /\ UNCHANGED <<now, svcVars, repoVars>>

cancelEditing ==
    /\ ses.phase \in Mounted
    /\ ses' = [ses EXCEPT !.last = "cancelEditing", !.editingTaskId = <<>>, !.thrown = ""]
    /\ UNCHANGED <<now, svcVars, repoVars>>

clearError ==
    /\ ses.phase \in Mounted
    /\ ses' = [ses EXCEPT !.last = "clearError", !.error = "", !.thrown = ""]
    /\ UNCHANGED <<now, svcVars, repoVars>>

\* Unmount: the cleanups set isMounted to false and clear the timer.
Unmount ==
    /\ ses.phase \in {"loading", "ready"}
    /\ ses' = Unmounted
    /\ UNCHANGED <<now, svcVars, repoVars>>

\* The stored values a session starts from, and the titles the user types.
SessionStores == {Absent, InvalidText, ArrayOf(<<RecordA>>), ArrayOf(<<RecordA, RecordB>>)}
SessionTitles == {<<>>, <<" ", "a">>}
SessionIds == {ses.tasks[i].id : i \in 1..Len(ses.tasks)}

InitSession ==
    /\ now = StartTime
    /\ svc = SvcIdle
    /\ view = ViewIdle
    /\ ids = <<>>
    /\ chainChanged = FALSE
    /\ store \in SessionStores
    /\ repo = RepoIdle
    /\ pending = <<>>
    /\ batch = [base |-> store, calls |-> <<>>, fault |-> FALSE]
    /\ ses = Unmounted

NextSession ==
    \/ Tick
    \/ \E readThrows \in BOOLEAN : Mount(readThrows)
    \/ LoadDone
    \/ \E setItem \in {"ok", "quota", "setItem failed"} : AutoSave(setItem)
    \/ \E title \in SessionTitles, r \in 0..(MaxRand - 1) : addTask(title, r)
    \/ \E id \in SessionIds, title \in SessionTitles : sessionUpdateTask(id, title)
    \/ \E id \in SessionIds : sessionToggleTaskStatus(id)
    \/ \E id \in SessionIds : sessionToggleTaskStatusTwice(id)
    \/ \E id \in SessionIds : deleteTask(id)
    \/ clearCompleted
    \/ clearError
    \/ Unmount

SpecSession == InitSession /\ [][NextSession]_vars

\* The same hook with the editing and filter actions, started on an empty
\* store, with localStorage not failing and the clock standing still.
InitEditing ==
    /\ InitSession
    /\ store = Absent

NextEditing ==
    \/ Mount(FALSE)
    \/ LoadDone
    \/ AutoSave("ok")
    \/ \E title \in SessionTitles, r \in 0..(MaxRand - 1) : addTask(title, r)
    \/ \E id \in SessionIds, title \in SessionTitles : sessionUpdateTask(id, title)
    \/ \E id \in SessionIds : sessionToggleTaskStatus(id)
    \/ \E id \in SessionIds : deleteTask(id)
    \/ clearCompleted
    \/ \E filter \in {"all", "active", "completed"} : setFilter(filter)
    \/ \E id \in SessionIds : startEditing(id)
    \/ cancelEditing

SpecEditing == InitEditing /\ [][NextEditing]_vars

\* The same hook on an empty store with localStorage not failing, where a
\* started timer fires unless it is cleared, and a suspended loadTasks resumes.
NextDebounce ==
    \/ Mount(FALSE)
    \/ LoadDone
    \/ AutoSave("ok")
    \/ \E title \in SessionTitles, r \in 0..(MaxRand - 1) : addTask(title, r)
    \/ \E id \in SessionIds, title \in SessionTitles : sessionUpdateTask(id, title)
    \/ \E id \in SessionIds : sessionToggleTaskStatus(id)
    \/ \E id \in SessionIds : deleteTask(id)
    \/ clearCompleted
    \/ clearError
    \/ Unmount

SpecDebounce ==
    /\ InitEditing
    /\ [][NextDebounce]_vars
    /\ WF_vars(AutoSave("ok"))
    /\ WF_vars(LoadDone)

----------------------------------------------------------------------------
(* useTasks, per-task variant (TaskRepository). An action is the call of the   *)
(* hook's function together with the continuations its awaits leave in the     *)
(* microtask queue, which run before the next event is handled.                *)

NotFoundMessage == "Task not found"

\* repository.save(task) run from its call to its end.
SavedOne(value, task, setItemThrows) ==
    Persisted(value, Upserted(TaskRepository_findAll(value, FALSE), task), setItemThrows)

\* repository.delete(id) run from its call to its end: it writes only when it
\* removed a task, and throws when that write fails.
DeleteWrites(value, id) ==
    LET tasks == TaskRepository_findAll(value, FALSE)
    IN  Len(Without(tasks, id)) # Len(tasks)

DeletedOne(value, id, setItemThrows) ==
    IF DeleteWrites(value, id)
    THEN Persisted(value, Without(TaskRepository_findAll(value, FALSE), id), setItemThrows)
    ELSE value

DeleteThrows(value, id, setItemThrows) ==
    /\ DeleteWrites(value, id)
    /\ PersistThrows(Without(TaskRepository_findAll(value, FALSE), id), setItemThrows)

\* The load effect: findAll reads the stored value, loadTasks is suspended.
PerTaskMount(readThrows) ==
    /\ ses.phase = "unmounted"
    /\ ses' = [Unmounted EXCEPT !.last = "mount",
                 !.phase = "loading",
                 !.loaded = TaskRepository_findAll(store, readThrows)]
    /\ UNCHANGED <<now, svcVars, repoVars>>

\* loadTasks resumes: setTasks(loadedTasks), setError(null), setIsLoading(false).
PerTaskLoadDone ==
    /\ ses.phase = "loading"
    /\ ses' = [ses EXCEPT !.last = "load", !.phase = "ready", !.tasks = ses.loaded,
                          !.error = "", !.isLoading = FALSE]
    /\ UNCHANGED <<now, svcVars, repoVars>>

\* saveTask catches what repository.save throws and sets the error, and the
\* setError(null) that follows the await in the action clears it again.
perTaskAddTask(title, r, setItemThrows) ==
    /\ ses.phase = "ready"
    /\ Len(ses.tasks) < MaxTasks
    /\ LET out == createTask([title |-> title], now, r)
       IN  /\ ses' = IF out.ok
                     THEN [ses EXCEPT !.last = "addTask", !.error = "", !.thrown = "",
                                      !.tasks = Append(@, out.task)]
                     ELSE [ses EXCEPT !.last = "addTask", !.error = out.error, !.thrown = out.error]
           /\ store' = IF out.ok THEN SavedOne(store, out.task, setItemThrows) ELSE store
    /\ UNCHANGED <<now, svcVars, repo, pending, batch>>

\* updateTask and toggleTaskStatus: tasks.find, then taskService.updateTask
\* inside the try block, setTasks(map), saveTask.
Invoked(isTitle) == IF isTitle THEN "updateTask" ELSE "toggleTaskStatus"

PerTaskPatched(id, isTitle, title, setItemThrows) ==
    /\ ses.phase = "ready"
    /\ IF \A i \in 1..Len(ses.tasks) : ses.tasks[i].id # id
       THEN /\ ses' = [ses EXCEPT !.last = Invoked(isTitle), !.error = NotFoundMessage,
                                  !.thrown = NotFoundMessage]
            /\ store' = store
       ELSE LET k == CHOOSE i \in 1..Len(ses.tasks) :
                        /\ ses.tasks[i].id = id
                        /\ \A j \in 1..(i - 1) : ses.tasks[j].id # id
                newStatus == IF ses.tasks[k].status = "completed" THEN "pending"
                             ELSE "completed"
                out == updateTask(ses.tasks[k],
                                  IF isTitle THEN TitlePatch(title)
                                  ELSE StatusPatch(newStatus), now)
            IN  IF ~out.ok
                THEN /\ ses' = [ses EXCEPT !.last = Invoked(isTitle), !.error = out.error,
                                           !.thrown = out.error]
                     /\ store' = store
                ELSE /\ ses' = [ses EXCEPT !.last = Invoked(isTitle),
                                  !.error = "", !.thrown = "",
                                  !.tasks = [i \in 1..Len(ses.tasks) |->
                                                IF ses.tasks[i].id = id THEN out.task
                                                ELSE ses.tasks[i]],
                                  !.editingTaskId = IF @ = id THEN <<>> ELSE @]
                     /\ store' = SavedOne(store, out.task, setItemThrows)
    /\ UNCHANGED <<now, svcVars, repo, pending, batch>>

perTaskUpdateTask(id, title, setItemThrows) ==
    PerTaskPatched(id, TRUE, title, setItemThrows)

perTaskToggleTaskStatus(id, setItemThrows) ==
    PerTaskPatched(id, FALSE, <<>>, setItemThrows)

\* toggleTaskStatus called twice in one render, for an id of the collection:
\* both calls find the task in the tasks of that render, so both make the same
\* updated task; both saves read the stored tasks before either writes.
perTaskToggleTaskStatusTwice(id, setItemThrows) ==
    /\ ses.phase = "ready"
    /\ \E i \in 1..Len(ses.tasks) : ses.tasks[i].id = id
    /\ LET k == CHOOSE i \in 1..Len(ses.tasks) :
                    /\ ses.tasks[i].id = id
                    /\ \A j \in 1..(i - 1) : ses.tasks[j].id # id
           newStatus == IF ses.tasks[k].status = "completed" THEN "pending"
                        ELSE "completed"
           first == updateTask(ses.tasks[k], StatusPatch(newStatus), now).task
           second == updateTask(ses.tasks[k], StatusPatch(newStatus), now).task
           Replaced(tasks, task) == [i \in 1..Len(tasks) |->
                                        IF tasks[i].id = id THEN task ELSE tasks[i]]
           read == TaskRepository_findAll(store, FALSE)
           written == Persisted(store, Upserted(read, first), setItemThrows)
       IN  /\ ses' = [ses EXCEPT
                        !.last = "toggleTaskStatusTwice", !.error = "", !.thrown = "",
                        !.tasks = Replaced(Replaced(ses.tasks, first), second),
                        !.editingTaskId = IF @ = id THEN <<>> ELSE @]
           /\ store' = Persisted(written, Upserted(read, second), setItemThrows)
    /\ UNCHANGED <<now, svcVars, repo, pending, batch>>

\* deleteTask: repository.delete first; when it throws nothing else happens.
perTaskDeleteTask(id, setItemThrows) ==
    /\ ses.phase = "ready"
    /\ store' = DeletedOne(store, id, setItemThrows)
    /\ ses' = IF DeleteThrows(store, id, setItemThrows)
              THEN [ses EXCEPT !.last = "deleteTask", !.error = PersistMessage,
                               !.thrown = PersistMessage]
              ELSE [ses EXCEPT !.last = "deleteTask", !.error = "", !.thrown = "",
                               !.tasks = Without(@, id),
                               !.editingTaskId = IF @ = id THEN <<>> ELSE @]
    /\ UNCHANGED <<now, svcVars, repo, pending, batch>>

\* clearCompleted: one repository.delete after the other, in collection order;
\* the loop ends at the first delete that throws.
RECURSIVE DeletedAll(_, _, _)
DeletedAll(value, idSeq, setItemThrows) ==
    IF idSeq = <<>> \/ DeleteThrows(value, Head(idSeq), setItemThrows) THEN value
    ELSE DeletedAll(DeletedOne(value, Head(idSeq), setItemThrows), Tail(idSeq), setItemThrows)

RECURSIVE DeleteAllThrows(_, _, _)
DeleteAllThrows(value, idSeq, setItemThrows) ==
    IF idSeq = <<>> THEN FALSE
    ELSE IF DeleteThrows(value, Head(idSeq), setItemThrows) THEN TRUE
    ELSE DeleteAllThrows(DeletedOne(value, Head(idSeq), setItemThrows), Tail(idSeq),
                         setItemThrows)

IsCompleted(task) == task.status = "completed"

perTaskClearCompleted(setItemThrows) ==
    /\ ses.phase = "ready"
    /\ LET completedTasks == SelectSeq(ses.tasks, IsCompleted)
           idSeq == [i \in 1..Len(completedTasks) |-> completedTasks[i].id]
       IN  /\ store' = DeletedAll(store, idSeq, setItemThrows)
           /\ ses' = IF DeleteAllThrows(store, idSeq, setItemThrows)
                     THEN [ses EXCEPT !.last = "clearCompleted", !.error = PersistMessage,
                                      !.thrown = PersistMessage]
                     ELSE [ses EXCEPT !.last = "clearCompleted", !.error = "", !.thrown = "",
                                      !.tasks = SelectSeq(@, IsPending)]
    /\ UNCHANGED <<now, svcVars, repo, pending, batch>>

\* The stored values a per-task session starts from: records save wrote, and
\* records with a title save never writes. The session is one mount of the
\* hook, with the clock standing still.
RecordEmptyTitle == [RecordA EXCEPT !.title = Str(<<>>)]
RecordPaddedTitle == [RecordB EXCEPT !.title = Str(<<" ", "a", "\t", "\t", "a">>)]
PerTaskStores ==
    {Absent, InvalidText, ArrayOf(<<RecordA>>), ArrayOf(<<RecordA, RecordB>>),
     ArrayOf(<<RecordEmptyTitle, RecordB>>), ArrayOf(<<RecordPaddedTitle>>)}

InitPerTask ==
    /\ now = StartTime
    /\ svc = SvcIdle
    /\ view = ViewIdle
    /\ ids = <<>>
    /\ chainChanged = FALSE
    /\ store \in PerTaskStores
    /\ repo = RepoIdle
    /\ pending = <<>>
    /\ batch = [base |-> store, calls |-> <<>>, fault |-> FALSE]
    /\ ses = Unmounted

NextPerTask ==
    \/ \E readThrows \in BOOLEAN : PerTaskMount(readThrows)
    \/ PerTaskLoadDone
    \/ \E title \in SessionTitles, r \in 0..(MaxRand - 1), setItemThrows \in BOOLEAN :
            perTaskAddTask(title, r, setItemThrows)
    \/ \E id \in SessionIds \cup {TaskB.id}, title \in SessionTitles, setItemThrows \in BOOLEAN :
            perTaskUpdateTask(id, title, setItemThrows)
    \/ \E id \in SessionIds \cup {TaskB.id}, setItemThrows \in BOOLEAN :
            perTaskToggleTaskStatus(id, setItemThrows)
    \/ \E id \in SessionIds, setItemThrows \in BOOLEAN :
            perTaskToggleTaskStatusTwice(id, setItemThrows)
    \/ \E id \in SessionIds \cup {TaskB.id}, setItemThrows \in BOOLEAN :
            perTaskDeleteTask(id, setItemThrows)
    \/ \E setItemThrows \in BOOLEAN : perTaskClearCompleted(setItemThrows)
    \/ clearError

SpecPerTask == InitPerTask /\ [][NextPerTask]_vars

----------------------------------------------------------------------------
(* Properties of TaskService *)

\* What normalization is, stated without the steps the service takes: the
\* characters that are not white space, each marked with whether it starts a word.
IsInk(p) == p[1] \notin WhiteSpace

Marked(s) ==
    SelectSeq([i \in 1..Len(s) |-> <<s[i], i = 1 \/ s[i - 1] \in WhiteSpace>>], IsInk)

\* o has single spaces only, and only between two words.
IsNormalized(o) ==
    \A i \in 1..Len(o) :
        o[i] \in WhiteSpace =>
            /\ o[i] = " "
            /\ i > 1 /\ i < Len(o)
            /\ o[i - 1] \notin WhiteSpace

IsNormalizationOf(o, s) == IsNormalized(o) /\ Marked(o) = Marked(s)

\* The length of the normalization of s: its words and one space between two.
NormalizedLen(s) ==
    LET m == Marked(s)
    IN  Len(m) + Cardinality({k \in 2..Len(m) : m[k][2]})

PatchIsNoOp(task, patch) ==
    /\ patch.hasTitle => IsNormalizationOf(task.title, patch.title)
    /\ patch.hasStatus => patch.status = task.status

\* C4: an updateTask whose patch is empty or whose present fields equal the
\* task's current values returns a task with the same updatedAt.
C4_NoOpKeepsUpdatedAt ==
    (svc.op = "updateTask" /\ svc.out.ok /\ PatchIsNoOp(svc.inTask, svc.patch))
        => svc.out.task.updatedAt = svc.inTask.updatedAt

\* C5: an updateTask that changes title or status after the clock has advanced
\* past the task's updatedAt stamps the result with the current time, later than
\* before, with the patched title and status and the same id and createdAt.
C5_EffectiveUpdate ==
    (/\ svc.op = "updateTask" /\ svc.out.ok
     /\ (svc.out.task.title # svc.inTask.title \/ svc.out.task.status # svc.inTask.status)
     /\ svc.at > svc.inTask.updatedAt)
        => /\ svc.out.task.updatedAt = svc.at
           /\ svc.out.task.updatedAt > svc.inTask.updatedAt
           /\ svc.patch.hasTitle => IsNormalizationOf(svc.out.task.title, svc.patch.title)
           /\ svc.patch.hasStatus => svc.out.task.status = svc.patch.status
           /\ svc.out.task.id = svc.inTask.id
           /\ svc.out.task.createdAt = svc.inTask.createdAt

C5_Witness ==
    /\ svc.op = "updateTask" /\ svc.out.ok
    /\ svc.patch.hasTitle /\ svc.patch.hasStatus
    /\ svc.out.task.title # svc.inTask.title
    /\ svc.out.task.status # svc.inTask.status
    /\ svc.at > svc.inTask.updatedAt

\* C6: createTask, and updateTask given a title, fail with the validation error
\* exactly when the normalized title has length 0 or more than 255, and a
\* failure produces no task.
C6_TitleValidationBoundary ==
    (svc.op \in {"createTask", "updateTask"} /\ svc.patch.hasTitle)
        => LET n == NormalizedLen(svc.patch.title)
           IN  /\ svc.out.ok <=> (n >= 1 /\ n <= 255)
               /\ ~svc.out.ok => (svc.out.task = NoTask /\ svc.out.error = ValidationMessage)

C6_Witness ==
    /\ svc.op = "createTask" /\ svc.out.ok
    /\ Len(svc.out.task.title) = 255
    /\ Len(svc.patch.title) > 255

\* C7: the title of the task createTask returns, and updateTask when given a
\* title, is the input without leading and trailing white space and with every
\* inner run of white space replaced by one space; a created task is pending
\* and has createdAt = updatedAt = now.
C7_TitleNormalization ==
    (svc.op \in {"createTask", "updateTask"} /\ svc.patch.hasTitle /\ svc.out.ok)
        => /\ IsNormalizationOf(svc.out.task.title, svc.patch.title)
           /\ svc.op = "createTask" =>
                /\ svc.out.task.status = "pending"
                /\ svc.out.task.createdAt = svc.at
                /\ svc.out.task.updatedAt = svc.at

C7_Witness ==
    /\ svc.op = "createTask" /\ svc.out.ok
    /\ svc.patch.title = <<"\t", "a", " ", "\t">>
    /\ svc.out.task.title = <<"a">>

C7_WitnessInnerRun ==
    /\ svc.op = "updateTask" /\ svc.out.ok
    /\ svc.patch.title = <<"a", "\t", " ", "a">>
    /\ svc.out.task.title = <<"a", " ", "a">>

\* C8: any two createTask calls return different ids.
C8_FreshIds ==
    \A i, j \in 1..Len(ids) : i # j => ids[i] # ids[j]

\* C10: every task of a chain of service calls has updatedAt >= createdAt, and
\* updatedAt = createdAt until a call has changed title or status.
C10_TimestampOrder ==
    svc.cur # NoTask =>
        /\ svc.cur.updatedAt >= svc.cur.createdAt
        /\ ~chainChanged => svc.cur.updatedAt = svc.cur.createdAt

\* C18: toggleTaskStatus returns the task with the other status and the same
\* id, title and createdAt, and toggling the result again, then or later, gives
\* the first status back with the same id, title and createdAt.
C18_ToggleInvolution ==
    svc.op = "toggleTaskStatus" =>
        /\ svc.out.ok
        /\ svc.out.task.status \in Statuses \ {svc.inTask.status}
        /\ svc.out.task.id = svc.inTask.id
        /\ svc.out.task.title = svc.inTask.title
        /\ svc.out.task.createdAt = svc.inTask.createdAt
        /\ \A later \in 0..1 :
              LET twice == toggleTaskStatus(svc.out.task, now + later)
              IN  /\ twice.ok
                  /\ twice.task.status = svc.inTask.status
                  /\ twice.task.id = svc.inTask.id
                  /\ twice.task.title = svc.inTask.title
                  /\ twice.task.createdAt = svc.inTask.createdAt

C18_Witness ==
    /\ svc.op = "toggleTaskStatus"
    /\ svc.inTask.status = "completed" /\ svc.out.task.status = "pending"
    /\ svc.at > svc.inTask.createdAt

\* The tasks at the positions of tasks where the status is status, in order.
Picked(tasks, status) ==
    LET at == {i \in 1..Len(tasks) : tasks[i].status = status}
    IN  [k \in 1..Cardinality(at) |->
            tasks[CHOOSE i \in at : Cardinality({j \in at : j < i}) = k - 1]]

\* C19: filterTasks gives the tasks themselves for all, the pending tasks in
\* their order for active and the completed tasks in their order for
\* completed; the active and the completed tasks together are as many as tasks.
C19_FilterPartition ==
    view.op = "filterTasks" =>
        /\ view.arg = "all" => view.out = view.tasks
        /\ view.arg = "active" => view.out = Picked(view.tasks, "pending")
        /\ view.arg = "completed" => view.out = Picked(view.tasks, "completed")
        /\ Len(filterTasks(view.tasks, "active")) + Len(filterTasks(view.tasks, "completed"))
              = Len(view.tasks)
        /\ \A i \in 1..Len(view.tasks) :
              (view.tasks[i].status = "pending")
                  <=> ~(\E k \in 1..Len(filterTasks(view.tasks, "completed")) :
                          filterTasks(view.tasks, "completed")[k] = view.tasks[i])

C19_Witness ==
    /\ view.op = "filterTasks" /\ view.arg = "active"
    /\ Len(view.tasks) = 3 /\ Len(view.out) = 2
    /\ view.tasks[2].status = "completed"
    /\ view.out[1] # view.out[2]

\* 100 * completed / total rounded to the nearest integer, halves up.
RoundedPercent(completed, total) ==
    IF total = 0 THEN 0 ELSE (200 * completed + total) \div (2 * total)

\* C20: calculateStats counts the tasks and the completed ones, gives the rest
\* as pending, and gives as completionRate 100 * completed / total rounded to
\* the nearest integer, an exact half up, and 0 for no tasks.
C20_Statistics ==
    view.op = "calculateStats" =>
        LET n == Cardinality({i \in 1..Len(view.tasks) : view.tasks[i].status = "completed"})
        IN  /\ view.stats.total = Len(view.tasks)
            /\ view.stats.completed = n
            /\ view.stats.pending = Len(view.tasks) - n
            /\ view.stats.completionRate = RoundedPercent(n, Len(view.tasks))
            /\ view.stats.completionRate >= 0 /\ view.stats.completionRate <= 100

\* The same for sequences where 100 * completed / total is not an exact half.
C20_StatisticsOffHalves ==
    (view.op = "calculateStats" /\ Len(view.tasks) > 0
        /\ (200 * view.stats.completed) % (2 * Len(view.tasks)) = Len(view.tasks))
    \/ C20_Statistics

\* The tasks of a sequence created at time t, in order.
CreatedAt(tasks, t) ==
    LET at(task) == task.createdAt = t
    IN  SelectSeq(tasks, at)

\* C21: sortTasksByCreationDate(tasks, descending) returns a rearrangement of
\* tasks in order of creation time, non-decreasing when descending is false or
\* omitted and non-increasing when it is true, in which the tasks of one
\* creation time stand in their input order; tasks itself is left alone.
C21_StableSort ==
    /\ [](view.op = "sortTasksByCreationDate" =>
            /\ Len(view.out) = Len(view.tasks)
            /\ \A i \in 1..(Len(view.out) - 1) :
                  IF view.arg = "true"
                  THEN view.out[i].createdAt >= view.out[i + 1].createdAt
                  ELSE view.out[i].createdAt <= view.out[i + 1].createdAt
            /\ \A t \in {StartTime, StartTime + 1} :
                  CreatedAt(view.out, t) = CreatedAt(view.tasks, t))
    /\ [][view'.op = "sortTasksByCreationDate" => view'.tasks = view.tasks]_vars

\* A descending sort of three tasks, the first and the last created at the same
\* time and the middle one later: the later one comes first, the two others
\* follow in their input order.
C21_Witness ==
    /\ view.op = "sortTasksByCreationDate"
    /\ view.arg = "true"
    /\ Len(view.tasks) = 3
    /\ view.tasks[1].createdAt = StartTime
    /\ view.tasks[2].createdAt = StartTime + 1
    /\ view.tasks[3].createdAt = StartTime
    /\ view.out = <<view.tasks[2], view.tasks[1], view.tasks[3]>>

\* An ascending sort, by default, of tasks given latest first.
C21_WitnessOmitted ==
    /\ view.op = "sortTasksByCreationDate"
    /\ view.arg = "omitted"
    /\ Len(view.tasks) = 2
    /\ view.tasks[1].createdAt > view.tasks[2].createdAt
    /\ view.out = <<view.tasks[2], view.tasks[1]>>

\* A query of white space only, the empty query included.
IsBlank(query) == \A i \in 1..Len(query) : query[i] \in WhiteSpace

\* The query from its first to its last character that is not white space.
Core(query) ==
    LET inked == {i \in 1..Len(query) : query[i] \notin WhiteSpace}
        first == CHOOSE i \in inked : \A j \in inked : i <= j
        last == CHOOSE i \in inked : \A j \in inked : i >= j
    IN  SubSeq(query, first, last)

\* title holds the characters of q in a row, letters compared without case.
ContainsIgnoringCase(title, q) ==
    \E i \in 0..(Len(title) - Len(q)) :
        \A j \in 1..Len(q) : LowerOf(title[i + j]) = LowerOf(q[j])

\* C22: searchTasks(tasks, query) returns every task, in input order, when the
\* query is empty or white space only; otherwise it returns, in input order,
\* exactly the tasks whose title contains the trimmed query, letters compared
\* without case, and the empty sequence when no title does.
C22_Search ==
    view.op = "searchTasks" =>
        IF IsBlank(view.query)
        THEN view.out = view.tasks
        ELSE LET matches(task) == ContainsIgnoringCase(task.title, Core(view.query))
             IN  /\ view.out = SelectSeq(view.tasks, matches)
                 /\ (\A i \in 1..Len(view.tasks) : ~matches(view.tasks[i]))
                        => view.out = <<>>

\* The query " aB\t" finds the task titled "Ab" and not the one titled "b".
C22_Witness ==
    /\ view.op = "searchTasks"
    /\ view.query = <<" ", "a", "B", "\t">>
    /\ Len(view.tasks) = 3
    /\ view.tasks[1].title = <<"b">>
    /\ view.tasks[2].title = <<"A", "b">>
    /\ view.tasks[3].title = <<"a", "b", "a">>
    /\ view.out = <<view.tasks[2], view.tasks[3]>>

\* A query of white space only returns all the tasks.
C22_WitnessBlank ==
    /\ view.op = "searchTasks"
    /\ view.query = <<" ", "\t">>
    /\ Len(view.tasks) = 2
    /\ view.out = view.tasks

\* A query no title contains returns no task.
C22_WitnessNoMatch ==
    /\ view.op = "searchTasks"
    /\ view.query = <<"B", "A">>
    /\ Len(view.tasks) = 2
    /\ view.tasks[1].title = <<"A", "b">>
    /\ view.out = <<>>


----------------------------------------------------------------------------
(* Properties of the repositories *)

\* C1: after the whole-collection save(tasks) has completed, findAll() returns
\* tasks, field for field and in order, whatever was stored before.
C1_RoundTrip ==
    (/\ repo.op = "findAll" /\ repo.class = "LocalStorageTaskRepository"
     /\ ~repo.fault /\ repo.saved)
        => repo.out = repo.savedTasks

\* A valid record as the specification defines it: string id and title, a
\* status that is pending or completed, dates that parse.
IsValidRecord(data) ==
    /\ data.kind = "object"
    /\ data.id.t = "string" /\ data.title.t = "string"
    /\ data.status.t = "string" /\ data.status.v \in Statuses
    /\ data.createdAt.t = "string" /\ ParseDate(data.createdAt.v) # NaN
    /\ data.updatedAt.t = "string" /\ ParseDate(data.updatedAt.v) # NaN

ValidTasksOf(items) ==
    LET valid == SelectSeq(items, IsValidRecord)
    IN  [i \in 1..Len(valid) |-> TaskOfData(valid[i])]

\* C2: from a stored array of valid and malformed records, findAll() of either
\* class returns exactly the valid ones, in their stored order.
C2_PartialCorruption ==
    (repo.op = "findAll" /\ ~repo.fault /\ repo.before.kind = "array")
        => repo.out = ValidTasksOf(repo.before.items)

\* One call run alone, from its start to its end, with localStorage not failing.
RunAlone(value, c) ==
    IF c.op = "clear" THEN Cleared(value, FALSE)
    ELSE IF c.op = "saveAll" THEN LocalStorageTaskRepository_save(value, c.tasks, "ok")
    ELSE LET d == [op |-> c.op, task |-> c.task, id |-> c.id,
                   tasks |-> TaskRepository_findAll(value, FALSE)]
         IN  IF Writes(d) THEN Persisted(value, ToWrite(d), FALSE) ELSE value

RECURSIVE RunInOrder(_, _, _, _)
RunInOrder(value, calls, order, k) ==
    IF k > Len(calls) THEN value
    ELSE RunInOrder(RunAlone(value, calls[order[k]]), calls, order, k + 1)

SerialOutcomes(base, calls) ==
    {RunInOrder(base, calls, order, 1) : order \in Permutations(1..Len(calls))}

\* C3: when all overlapping store calls have completed, the stored value is what
\* running them one at a time in some order gives.
C3_StoreCallsAtomic ==
    (pending = <<>> /\ ~batch.fault) => store \in SerialOutcomes(batch.base, batch.calls)

\* C12: every task findAll() returns, in either class, has a status that is
\* pending or completed and createdAt and updatedAt that are valid dates.
C12_LoadValidation ==
    repo.op = "findAll" =>
        \A i \in 1..Len(repo.out) :
            /\ repo.out[i].status \in Statuses
            /\ repo.out[i].createdAt # NaN
            /\ repo.out[i].updatedAt # NaN

\* C13: findAll() of either class returns the empty sequence and throws nothing
\* when the key is absent, when its text is empty or no JSON, when the JSON
\* value is no array and when getItem throws; the stored value stays as it was.
C13_LoadNeverFails ==
    repo.op = "findAll" =>
        /\ repo.error = ""
        /\ store = repo.before
        /\ (repo.fault \/ repo.before.kind # "array") => repo.out = <<>>

C13_Witness ==
    /\ repo.op = "findAll" /\ repo.class = "TaskRepository"
    /\ repo.fault /\ repo.before = ArrayOf(<<RecordA>>)
    /\ repo.out = <<>>

C13_WitnessInvalidText ==
    /\ repo.op = "findAll" /\ ~repo.fault
    /\ repo.before = InvalidText /\ store = InvalidText

\* The errors save throws when the backend rejects the write of a collection
\* that is within the size limit.
WriteFailures ==
    {LocalStorageTaskRepository_saveError(<<>>, setItem) : setItem \in SetItemOutcomes \ {"ok"}}

C14_SizeCeilingRejects ==
    (/\ repo.op = "save" /\ repo.class = "LocalStorageTaskRepository"
     /\ SerializedLength(repo.tasks) > 5 * 1024 * 1024)
        => /\ repo.error = SizeMessage
           /\ ~repo.setItemCalled
           /\ store = repo.before

C14_AtLimitSaved ==
    (/\ repo.op = "save" /\ repo.class = "LocalStorageTaskRepository"
     /\ SerializedLength(repo.tasks) = 5 * 1024 * 1024 /\ ~repo.fault)
        => repo.error = "" /\ repo.setItemCalled

\* The errors the class throws when setItem fails for another reason than quota.
OtherWriteErrors(class) ==
    IF class = "LocalStorageTaskRepository"
    THEN {LocalStorageTaskRepository_saveError(<<>>, m) : m \in BackendMessages}
    ELSE {TaskRepository_persistError(<<>>, m) : m \in BackendMessages}

\* C15: when setItem throws in a save of either class, save throws to its caller
\* and the stored value stays as it was; when setItem throws for lack of space,
\* the error is none of those thrown for the other write failures.
C15_WriteFailureTaxonomy ==
    (repo.op = "save" /\ repo.setItemCalled /\ repo.setItem # "ok")
        => /\ repo.error # ""
           /\ store = repo.before
           /\ repo.setItem = "quota" => repo.error \notin OtherWriteErrors(repo.class)

\* The same for the whole-collection save alone.
C15_WholeCollectionTaxonomy ==
    repo.class = "LocalStorageTaskRepository" => C15_WriteFailureTaxonomy

\* C17: a clear() of either class in which removeItem does not throw throws
\* nothing and leaves no stored entry, so that findAll() returns the empty
\* sequence, whether the store held tasks, other text or nothing before.
C17_ClearIdempotent ==
    (repo.op = "clear" /\ ~repo.fault)
        => /\ repo.error = ""
           /\ store = Absent
           /\ TaskRepository_findAll(store, FALSE) = <<>>
           /\ LocalStorageTaskRepository_findAll(store, FALSE) = <<>>

C17_Witness ==
    /\ repo.op = "clear" /\ ~repo.fault
    /\ repo.before = Absent /\ store = Absent

C17_WitnessRemoved ==
    /\ repo.op = "clear" /\ ~repo.fault
    /\ repo.before = ArrayOf(<<RecordA, RecordB>>) /\ store = Absent

----------------------------------------------------------------------------
(* Properties of the session *)

StoredIds == [i \in 1..Len(store.items) |-> store.items[i].id]

\* C9: in every state of a session no two tasks of the in-memory collection
\* share an id, and no two stored records share an id.
C9_UniqueIds ==
    /\ HasDistinctIds(ses.tasks)
    /\ \A i, j \in 1..Len(StoredIds) : i # j => StoredIds[i] # StoredIds[j]

\* The titles of the collection as the specification wants them.
IsValidTitle(title) ==
    Len(title) >= 1 /\ Len(title) <= 255 /\ IsNormalized(title)

\* C11: in every state of a session every task of the collection has a title of
\* length 1 to 255 without leading, trailing or doubled white space.
C11_TitleInvariant ==
    \A i \in 1..Len(ses.tasks) : IsValidTitle(ses.tasks[i].title)

\* The tasks a stored value holds: those of its valid records.
StoredTasks(value) ==
    IF value.kind = "array" THEN ValidTasksOf(value.items) ELSE <<>>

\* A save that is waiting for its timer is not given up: the timer goes away
\* only by firing, which stores its tasks.
NoDroppedSave ==
    (ses.timer.armed /\ ~ses'.timer.armed) => StoredTasks(store') = ses.timer.tasks

\* What is written is the collection of that moment.
WritesCurrent ==
    store' # store => StoredTasks(store') = ses'.tasks

\* C16: with localStorage not failing, every collection a mutation leaves after
\* the load is stored, or a later one is: a waiting save is never given up and
\* does fire, only the collection of the moment is written, and when no save
\* is waiting the stored tasks are those of the collection.
C16_DebouncedPersistence ==
    /\ [][NoDroppedSave /\ WritesCurrent]_vars
    /\ (ses.timer.armed ~> ~ses.timer.armed)
    /\ []((ses.phase = "ready" /\ ~ses.timer.armed) => StoredTasks(store) = ses.tasks)

\* The same as far as a hook that stays mounted goes.
C16_WhileMounted ==
    /\ [][ses'.phase = "ready" => (NoDroppedSave /\ WritesCurrent)]_vars
    /\ []((ses.phase = "ready" /\ ~ses.timer.armed) => StoredTasks(store) = ses.tasks)


\* The titles of the session that createTask rejects.
IsRejected(title) == ~IsValidTitle(CollapseWhiteSpace(Trim(title)))

\* C23: an addTask whose title fails validation leaves the collection and the
\* stored content as they are, sets the error to a message and throws to its
\* caller; a clearError after it sets the error to null and changes nothing
\* else of the session or the store.
C23_RejectedCreation ==
    /\ [][\A title \in SessionTitles, r \in 0..(MaxRand - 1) :
            (addTask(title, r) /\ IsRejected(title)) =>
                /\ ses'.tasks = ses.tasks
                /\ store' = store
                /\ ses'.error # ""
                /\ ses'.thrown = ses'.error
                /\ ses' = [ses EXCEPT !.error = ses'.error, !.thrown = ses'.thrown,
                                      !.last = "addTask"]]_vars
    /\ [][(clearError /\ ses.thrown = ValidationMessage) =>
            /\ ses'.error = ""
            /\ ses' = [ses EXCEPT !.error = "", !.thrown = "", !.last = "clearError"]
            /\ store' = store]_vars

\* The same in the per-task variant, where nothing is saved either.
C23_PerTaskRejectedCreation ==
    /\ [][\A title \in SessionTitles, r \in 0..(MaxRand - 1), setItemThrows \in BOOLEAN :
            (perTaskAddTask(title, r, setItemThrows) /\ IsRejected(title)) =>
                /\ ses'.tasks = ses.tasks
                /\ store' = store
                /\ ses'.error # ""
                /\ ses'.thrown = ses'.error
                /\ ses' = [ses EXCEPT !.error = ses'.error, !.thrown = ses'.thrown,
                                      !.last = "addTask"]]_vars
    /\ [][(clearError /\ ses.thrown = ValidationMessage) =>
            /\ ses' = [ses EXCEPT !.error = "", !.thrown = "", !.last = "clearError"]
            /\ store' = store]_vars

\* A session holding a task, with a save waiting, just after an addTask was
\* rejected.
C23_Witness ==
    /\ ses.phase = "ready"
    /\ ses.last = "addTask"
    /\ ses.thrown = ValidationMessage
    /\ ses.error = ValidationMessage
    /\ Len(ses.tasks) = 1
    /\ ses.timer.armed
    /\ StoredTasks(store) # ses.tasks

\* The ids of a task sequence.
IdsOf(tasks) == {tasks[i].id : i \in 1..Len(tasks)}

\* C24: clearCompleted leaves in the collection exactly the tasks that were
\* pending, unchanged and in their order, and, the load being over, the save
\* that waits after it stores that collection when its timer fires: no
\* completed task and every pending one.
C24_ClearCompleted ==
    /\ [][clearCompleted =>
            /\ ses'.tasks = Picked(ses.tasks, "pending")
            /\ ~ses.isLoading => (ses'.timer.armed /\ ses'.timer.tasks = ses'.tasks)]_vars
    /\ [][(ses.last = "clearCompleted" /\ AutoSave("ok")) =>
            /\ StoredTasks(store') = ses.tasks
            /\ Picked(StoredTasks(store'), "completed") = <<>>]_vars

\* The same in the per-task variant, for a call that ends without throwing on
\* a collection that is the stored one: the stored tasks change at once.
C24_PerTaskClearCompleted ==
    [][\A setItemThrows \in BOOLEAN :
        (/\ perTaskClearCompleted(setItemThrows)
         /\ ses'.thrown = ""
         /\ StoredTasks(store) = ses.tasks) =>
            /\ ses'.tasks = Picked(ses.tasks, "pending")
            /\ StoredTasks(store') = ses'.tasks
            /\ Picked(StoredTasks(store'), "completed") = <<>>]_vars

\* clearCompleted has removed the completed one of two tasks, and the save
\* after it has stored the pending one alone.
C24_WitnessStored ==
    /\ ses.phase = "ready"
    /\ ses.last = "save"
    /\ Len(ses.tasks) = 1
    /\ ses.tasks[1].status = "pending"
    /\ StoredTasks(store) = ses.tasks
    /\ ~ses.timer.armed
    /\ ses.error = ""

\* clearCompleted has just removed a completed task and kept a pending one.
C24_Witness ==
    /\ ses.last = "clearCompleted"
    /\ ses.thrown = ""
    /\ Len(ses.tasks) = 1
    /\ ses.timer.armed
    /\ \E i \in 1..Len(StoredTasks(store)) :
          /\ StoredTasks(store)[i].status = "completed"
          /\ StoredTasks(store)[i].id \notin IdsOf(ses.tasks)

\* The tasks of a sequence whose id is not id, by positions.
Others(tasks, id) ==
    LET at == {i \in 1..Len(tasks) : tasks[i].id # id}
    IN  [k \in 1..Cardinality(at) |->
            tasks[CHOOSE i \in at : Cardinality({j \in at : j < i}) = k - 1]]

\* C25: a deleteTask(id) that ends without throwing removes exactly one task:
\* the collection is one task shorter when it held the id, no task of that id
\* is left and every other task is there, unchanged and in its place; the
\* stored tasks change the same way, and for an id that is not stored nothing
\* is written.
C25_DeleteExactlyOne ==
    [][\A id \in SessionIds \cup {TaskB.id}, setItemThrows \in BOOLEAN :
        (perTaskDeleteTask(id, setItemThrows) /\ ses'.thrown = "") =>
            /\ id \in IdsOf(ses.tasks) => Len(ses'.tasks) = Len(ses.tasks) - 1
            /\ id \notin IdsOf(ses'.tasks)
            /\ ses'.tasks = Others(ses.tasks, id)
            /\ StoredTasks(store') = Others(StoredTasks(store), id)
            /\ id \notin IdsOf(StoredTasks(store)) => store' = store]_vars

\* All of it but the count: every task of the id is removed, and nothing else.
C25_DeleteById ==
    [][\A id \in SessionIds \cup {TaskB.id}, setItemThrows \in BOOLEAN :
        (perTaskDeleteTask(id, setItemThrows) /\ ses'.thrown = "") =>
            /\ id \notin IdsOf(ses'.tasks)
            /\ ses'.tasks = Others(ses.tasks, id)
            /\ StoredTasks(store') = Others(StoredTasks(store), id)
            /\ id \notin IdsOf(StoredTasks(store)) => store' = store]_vars

\* The same for the whole-collection variant, where nothing is stored at once.
C25_SessionDeleteById ==
    [][\A id \in SessionIds :
        deleteTask(id) =>
            /\ id \notin IdsOf(ses'.tasks)
            /\ ses'.tasks = Others(ses.tasks, id)
            /\ store' = store]_vars

\* TaskRepository.delete(id), completed without throwing, returns true exactly
\* when the id was among the stored tasks it read, and writes nothing when it
\* was not.
C25_DeleteReturns ==
    [][\A setItem \in SetItemOutcomes :
        (/\ TRResume(setItem)
         /\ Head(pending).op = "delete"
         /\ repo'.error = "") =>
            /\ (repo'.out # <<>>) <=> (Head(pending).id \in IdsOf(Head(pending).tasks))
            /\ Head(pending).id \notin IdsOf(Head(pending).tasks) =>
                  (store' = store /\ ~repo'.setItemCalled)]_vars

\* Every valid task record of value a is a record of value b.
KeepsRecords(a, b) ==
    \A i \in 1..Len(StoredTasks(a)) :
        \E j \in 1..Len(StoredTasks(b)) : StoredTasks(b)[j] = StoredTasks(a)[i]

\* A step of a session in which nothing has been changed yet: the mount, the
\* load, the timer the load started, the clock.
IsStartStep ==
    /\ ses.last \in {"none", "mount", "load"}
    /\ ses'.last \in {"none", "mount", "load", "save"}

\* C26: starting a session destroys no stored task: while the user has changed
\* nothing, every valid record stored under the key stays stored, with the
\* same values, through the mount, the load and the auto-save that follows.
C26_StartKeepsStored ==
    [][IsStartStep => KeepsRecords(store, store')]_vars

\* C27: nothing is written under the key, and no save is waiting, while
\* isLoading is true, so the empty collection of the first render is never
\* stored before the load has installed its result; isLoading turns false once
\* in a mount, when the load ends, and is true again only in a new mount.
C27_NoSaveBeforeLoad ==
    /\ [](ses.isLoading => ~ses.timer.armed)
    /\ [][(store' # store \/ ses'.last = "save") => ~ses.isLoading]_vars
    /\ [][(ses.isLoading /\ ~ses'.isLoading) => ses'.last = "load"]_vars
    /\ [][(~ses.isLoading /\ ses'.isLoading) => ses' = Unmounted]_vars

\* The load is still running, a task has been added meanwhile, the key holds
\* data and no save is waiting.
C27_Witness ==
    /\ ses.phase = "loading"
    /\ ses.isLoading
    /\ ses.last = "addTask"
    /\ ses.tasks # <<>>
    /\ StoredTasks(store) # <<>>
    /\ ~ses.timer.armed

\* The status of every task of the id is the other one after the step, or the
\* same one.
StatusFlipped(id) ==
    /\ Len(ses'.tasks) = Len(ses.tasks)
    /\ \A i \in 1..Len(ses.tasks) :
          ses.tasks[i].id = id =>
              /\ ses'.tasks[i].status \in Statuses
              /\ ses'.tasks[i].status # ses.tasks[i].status

StatusKept(id) ==
    /\ Len(ses'.tasks) = Len(ses.tasks)
    /\ \A i \in 1..Len(ses.tasks) :
          ses.tasks[i].id = id => ses'.tasks[i].status = ses.tasks[i].status

\* The stored record of the id has the status of the task in the collection.
StoredAsHeld(value, tasks, id) ==
    \A i \in 1..Len(StoredTasks(value)), j \in 1..Len(tasks) :
        (StoredTasks(value)[i].id = id /\ tasks[j].id = id)
            => StoredTasks(value)[i].status = tasks[j].status

\* C28: toggling a task of the session twice gives it its status back. In a
\* collection of distinct ids, one toggleTaskStatus(id) turns the status into
\* the other one, two calls made in one render leave it as it was, and when
\* the write succeeds the stored record of the task has the status the
\* collection holds.
C28_SessionToggleInvolution ==
    /\ [][\A id \in SessionIds, setItemThrows \in BOOLEAN :
            (/\ perTaskToggleTaskStatus(id, setItemThrows)
             /\ ses'.thrown = ""
             /\ HasDistinctIds(ses.tasks)) =>
                /\ StatusFlipped(id)
                /\ ~setItemThrows => StoredAsHeld(store', ses'.tasks, id)]_vars
    /\ [][\A id \in SessionIds, setItemThrows \in BOOLEAN :
            (/\ perTaskToggleTaskStatusTwice(id, setItemThrows)
             /\ HasDistinctIds(ses.tasks)) =>
                /\ StatusKept(id)
                /\ ~setItemThrows => StoredAsHeld(store', ses'.tasks, id)]_vars

\* What holds in the per-task variant: each call by itself, rendered before
\* the next, turns the status into the other one and stores it, and two calls
\* in one render store the status they leave in the collection.
C28_PerTaskToggleFlips ==
    /\ [][\A id \in SessionIds, setItemThrows \in BOOLEAN :
            (/\ perTaskToggleTaskStatus(id, setItemThrows)
             /\ ses'.thrown = ""
             /\ HasDistinctIds(ses.tasks)) =>
                /\ StatusFlipped(id)
                /\ ~setItemThrows => StoredAsHeld(store', ses'.tasks, id)]_vars
    /\ [][\A id \in SessionIds, setItemThrows \in BOOLEAN :
            (/\ perTaskToggleTaskStatusTwice(id, setItemThrows)
             /\ HasDistinctIds(ses.tasks)) =>
                /\ StatusFlipped(id)
                /\ ~setItemThrows => StoredAsHeld(store', ses'.tasks, id)]_vars

\* The whole-collection variant: one call turns the status into the other
\* one, two calls in one render leave it as it was, and the save that follows
\* stores the status the collection holds.
C28_WholeCollectionToggle ==
    /\ [][\A id \in SessionIds : sessionToggleTaskStatus(id) => StatusFlipped(id)]_vars
    /\ [][\A id \in SessionIds : sessionToggleTaskStatusTwice(id) => StatusKept(id)]_vars
    /\ [][\A id \in SessionIds :
            (/\ ses.last \in {"toggleTaskStatus", "toggleTaskStatusTwice"}
             /\ AutoSave("ok")
             /\ HasDistinctIds(ses.tasks))
                => StoredAsHeld(store', ses'.tasks, id)]_vars

\* C29: editingTaskId is null or the id of a task of the collection, in every
\* state of the session; so it is null once deleteTask or clearCompleted has
\* removed the task that was being edited.
C29_EditingTargetValid ==
    ses.editingTaskId = <<>> \/ ses.editingTaskId \in IdsOf(ses.tasks)

\* The part of it that deleteTask keeps: the task just deleted is not being
\* edited.
C29_DeleteResetsEditing ==
    [][\A id \in SessionIds : deleteTask(id) => ses'.editingTaskId # id]_vars

\* cancelEditing sets editingTaskId to null, and startEditing and
\* cancelEditing leave the collection, the store and the waiting save alone.
C29_EditingFrame ==
    /\ [][cancelEditing => ses'.editingTaskId = <<>>]_vars
    /\ [][(cancelEditing \/ \E id \in SessionIds : startEditing(id)) =>
            /\ ses'.tasks = ses.tasks
            /\ ses'.timer = ses.timer
            /\ store' = store]_vars

\* C30: the number the filter bar shows as items left is the number of pending
\* tasks of the collection, and so is never negative.
C30_ItemsLeft ==
    view.op = "render" =>
        /\ view.itemsLeft = Len(Picked(view.tasks, "pending"))
        /\ view.itemsLeft >= 0

\* What holds: the stats handed to the filter bar count the pending tasks.
C30_StatsPending ==
    view.op = "render" =>
        /\ view.stats.pending = Len(Picked(view.tasks, "pending"))
        /\ view.stats.pending >= 0
====
